---- MODULE Spec2Model ----
(***************************************************************************)
(* A model of apt2ostree's apt.py: the download_deb rule (fetch, verify,   *)
(* unpack, commit, mirror), parse_packages, Apt.image_from_lockfile and    *)
(* the scheduling of the rules it registers.                               *)
(***************************************************************************)
EXTENDS Integers, Sequences, FiniteSets, TLC

(***************************************************************************)
(* Bounds of the model.                                                    *)
(***************************************************************************)
\* longest deb_pool_mirrors list explored
MaxMirrors == 2
\* longest lockfile, in lines, given to parse_packages
MaxLines == 4
\* most package records in a lockfile given to image_from_lockfile
MaxPkgs == 2
\* most statements ninja runs at a time (ninja -j)
MaxJobs == 2

(***************************************************************************)
(* Generic helpers.                                                        *)
(***************************************************************************)
\* all sequences over S of length at most n
BoundedSeq(S, n) == UNION {[1..k -> S] : k \in 0..n}

RECURSIVE Flatten(_)
\* concatenation of a sequence of sequences
Flatten(ss) == IF ss = <<>> THEN <<>> ELSE Head(ss) \o Flatten(Tail(ss))

(***************************************************************************)
(* download_deb (apt.py 84-130): one run of the rule's shell script for    *)
(* one package record.                                                     *)
(***************************************************************************)
VARIABLES
    deb_pool_mirrors,   \* Apt.deb_pool_mirrors: the configured mirror list
    mirrors_file,       \* text of $builddir/deb_pool_mirrors, as tokens
    sha256sum,          \* the record's SHA256 ($sha256sum)
    apt_should_mirror,  \* ninja variable apt_should_mirror
    served,             \* what each upstream URL serves: NoFile or a blob
    mirror_cache,       \* $builddir/apt/mirror/$filename: NoFile or a blob
    tmp_deb,            \* $tmpdir/deb: NoFile or a blob
    stdin,              \* lines of deb_pool_mirrors not yet read by the loop
    mirror,             \* the loop variable $mirror
    dl_pc,              \* position in the script
    attempts,           \* history: the download() calls made, in order
    extracted,          \* the archive whose members `ar x` left in $tmpdir
    refs                \* $ref_base/data and $ref_base/control in the store

dlVars == <<deb_pool_mirrors, mirrors_file, sha256sum, apt_should_mirror,
            served, mirror_cache, tmp_deb, stdin, mirror, dl_pc, attempts,
            extracted, refs>>

(***************************************************************************)
(* parse_packages (apt.py 365-382): the generator and what it has yielded. *)
(***************************************************************************)
VARIABLES
    lockfile,       \* the lines of the stream, as given to parse_packages
    stream,         \* the lines the for loop has not consumed yet
    pkg,            \* the dict being filled
    label,          \* the label of the field last started, or None
    yielded,        \* history: the records yielded so far
    parse_pc        \* "running", "done" (StopIteration) or the exception raised

parseVars == <<lockfile, stream, pkg, label, yielded, parse_pc>>

(***************************************************************************)
(* Apt.image_from_lockfile (apt.py 299-362): the lockfile on disk, the     *)
(* build statements registered with ninja and what the call returned.      *)
(***************************************************************************)
VARIABLES
    lockfile_path,  \* the `lockfile` argument
    lockfile_errno, \* errno of opening it: "none", "ENOENT" or "EACCES"
    ninja_builds,   \* the build statements registered, in order
    img_result,     \* the call: "pending", "raised" or "returned", and the ref returned
    store,          \* the ostree repo: branch -> committed tree
    build_files,    \* files under $builddir written by make_dpkg_info
    next_build,     \* the statement ninja runs next, in registration order
    failed          \* the statements that failed or whose inputs are missing

imgVars == <<lockfile_path, lockfile_errno, ninja_builds, img_result,
             store, build_files, next_build, failed>>

(***************************************************************************)
(* The build of the statements Apt.build_image registers (apt.py 268-275), *)
(* run by ninja with the pools the rules declare.                          *)
(***************************************************************************)
VARIABLES
    sched_builds,   \* the statements ninja has to run, in registration order
    sched_status,   \* per statement: "waiting", "running", "done" or "failed"
    sched_store     \* the outputs committed or written so far

schedVars == <<sched_builds, sched_status, sched_store>>

(***************************************************************************)
(* Two runs of the generator and of ninja in one workspace: first with one *)
(* lockfile and mirror list, then with another (apt.py 299-362 and the     *)
(* rules it registers).                                                    *)
(***************************************************************************)
VARIABLES
    rr_path,        \* the `lockfile` argument of both runs
    rr_lockfiles,   \* the text of the lockfile at each run
    rr_mirrors,     \* Apt.deb_pool_mirrors at each run
    rr_run,         \* the run under way: 1 or 2
    rr_pc,          \* "generate", "build" or "done"
    rr_builds,      \* the statements registered at each run
    rr_next,        \* the statement ninja looks at next
    rr_store,       \* the ostree repo: branch -> committed tree
    rr_files,       \* files under $builddir: path -> content
    rr_log,         \* the statements that have run successfully
    rr_changed,     \* inputs and outputs whose content changed in this run
    rr_executed,    \* history: the statements each run executed
    rr_images       \* history: the unpacked image each run left

rerunVars == <<rr_path, rr_lockfiles, rr_mirrors, rr_run, rr_pc, rr_builds, rr_next,
               rr_store, rr_files, rr_log, rr_changed, rr_executed, rr_images>>

(***************************************************************************)
(* One run of the make_dpkg_info script (apt.py 132-179) or of the         *)
(* update_lockfile script (apt.py 22-37).                                  *)
(***************************************************************************)
VARIABLES
    mi_task,        \* the rule whose script runs
    mi_pc,          \* position in the script
    mi_data,        \* the tree of $ref_base/data
    mi_control,     \* the tree of $ref_base/control: file name -> content
    mi_out,         \* $tmpdir/out: path -> content
    mi_tmp,         \* $tmpdir/control, $tmpdir/status and $tmpdir/available
    mi_info,        \* the tree of $ref_base/info, once committed
    mi_files,       \* $builddir/$ref_base/status and .../available
    mi_before,      \* history: mi_files when the script started
    ul_listing,     \* what `aptly mirror update -list-without-downloading` prints
    ul_tilde,       \* $lockfile~
    ul_lockfile,    \* $lockfile
    ul_before       \* history: $lockfile when the script started

infoVars == <<mi_task, mi_pc, mi_data, mi_control, mi_out, mi_tmp, mi_info, mi_files,
              mi_before, ul_listing, ul_tilde, ul_lockfile, ul_before>>

(***************************************************************************)
(* One run of the dpkg_configure script (apt.py 200-235).                  *)
(***************************************************************************)
VARIABLES
    cf_unpacked,    \* the tree of $in_branch: the files the script deals with
    cf_root,        \* $TARGET, the checked-out root
    cf_pc,          \* position in the script
    cf_hooks,       \* history: the policy stub as `dpkg --configure -a` found it
    cf_failed,      \* history: the command that failed, or "none"
    cf_configured   \* the tree of $out_branch, once committed

configureVars == <<cf_unpacked, cf_root, cf_pc, cf_hooks, cf_failed, cf_configured>>

(***************************************************************************)
(* One run of a generator that calls Apt.build_image (apt.py 268-275) for  *)
(* two lockfiles and then Apt.write_phony_rules (apt.py 255-257).          *)
(***************************************************************************)
VARIABLES
    bi_lockfiles,   \* the `lockfile` arguments of the two calls
    bi_registered,  \* the statements each call has registered
    bi_returned,    \* the ref each call has returned
    bi_phony        \* the statement write_phony_rules has registered, if any

keyVars == <<bi_lockfiles, bi_registered, bi_returned, bi_phony>>

vars == <<dlVars, parseVars, imgVars, schedVars, rerunVars, infoVars, configureVars, keyVars>>

\* what a step of one part of the program leaves alone
notDl == <<parseVars, imgVars, schedVars, rerunVars, infoVars, configureVars, keyVars>>
notParse == <<dlVars, imgVars, schedVars, rerunVars, infoVars, configureVars, keyVars>>
notImg == <<schedVars, rerunVars, infoVars, configureVars, keyVars>>
notSched == <<dlVars, parseVars, imgVars, rerunVars, infoVars, configureVars, keyVars>>
notRerun == <<dlVars, parseVars, imgVars, schedVars, infoVars, configureVars, keyVars>>
notInfo == <<dlVars, parseVars, imgVars, schedVars, rerunVars, configureVars, keyVars>>
notConfigure == <<dlVars, parseVars, imgVars, schedVars, rerunVars, infoVars, keyVars>>
notKey == <<dlVars, parseVars, imgVars, schedVars, rerunVars, infoVars, configureVars>>

\* the mirrors a list may name
MirrorNames == {"A", "B"}
\* the two URLs tried on a mirror: $mirror/$filename, $mirror/$aptly_pool_filename
UrlKinds == {"filename", "aptly_pool_filename"}
\* archive contents: two different .deb files
Blobs == {"deb1", "deb2"}
NoFile == "none"
NoMirror == "-"

\* sha256sum FILE | cut -f1 -d ' ': the digest, or nothing when FILE is missing
Sha256Of(file) ==
    CASE file = "deb1" -> "D1"
      [] file = "deb2" -> "D2"
      [] OTHER -> ""

\* image_from_lockfile, lines 309-311: f.write(x + "\n") for each mirror
WriteMirrorsFile(list) == Flatten([i \in 1..Len(list) |-> <<list[i], "\n">>])

RECURSIVE ReadLines(_)
\* `while read mirror ... done <deb_pool_mirrors`: the newline-terminated lines
ReadLines(text) ==
    IF text = <<>> THEN <<>>
    ELSE IF Head(text) = "\n" THEN <<"">> \o ReadLines(Tail(text))
    ELSE IF Len(text) >= 2 /\ text[2] = "\n"
         THEN <<Head(text)>> \o ReadLines(Tail(Tail(text)))
         ELSE <<>>   \* an unterminated last line: read fails, the loop ends

\* what curl finds at a source
Fetched(kind, m) ==
    IF kind = "cache" THEN mirror_cache
    ELSE IF m \in MirrorNames THEN served[m][kind]
    ELSE NoFile

\* curl -L --fail -o $tmpdir/deb URL: the file is replaced only when bytes arrive
AfterCurl(old, got) == IF got = NoFile THEN old ELSE got

\* download(), lines 86-96: the verdict is the digest of whatever $tmpdir/deb holds
DownloadOk(file) == Sha256Of(file) = sha256sum

\* the order of the three download calls of one loop iteration, lines 102-104
SwappedNextSource(kind) ==
    CASE kind = "cache" -> "aptly_pool_filename"
      [] kind = "aptly_pool_filename" -> "filename"
      [] OTHER -> "loop"

NextSource(kind) ==
    CASE kind = "cache" -> "filename"
      [] kind = "filename" -> "aptly_pool_filename"
      [] OTHER -> "loop"

\* line 101 reading the list back to front
ReversedMirrorLines(text) ==
    LET ls == ReadLines(text) IN [i \in 1..Len(ls) |-> ls[Len(ls) + 1 - i]]

\* line 105: the loop's stdin is the mirrors file
MirrorLines(text) == ReadLines(text)

DlInit ==
    /\ deb_pool_mirrors \in BoundedSeq(MirrorNames, MaxMirrors)
    /\ mirrors_file = WriteMirrorsFile(deb_pool_mirrors)
    /\ sha256sum = "D1"
    /\ apt_should_mirror \in BOOLEAN
    /\ served \in [MirrorNames -> [UrlKinds -> Blobs \cup {NoFile}]]
    /\ mirror_cache \in Blobs \cup {NoFile}
    /\ tmp_deb \in Blobs \cup {NoFile}
    /\ stdin = <<>>
    /\ mirror = NoMirror
    /\ dl_pc = "start"
    /\ attempts = <<>>
    /\ extracted = NoFile
    /\ refs = [data |-> NoFile, control |-> NoFile]

dlWorld == <<deb_pool_mirrors, mirrors_file, sha256sum, apt_should_mirror, served>>

\* lines 98-100 and the redirection of line 105
DlStart ==
    /\ dl_pc = "start"
    /\ stdin' = MirrorLines(mirrors_file)
    /\ dl_pc' = "loop"
    /\ UNCHANGED <<dlWorld, mirror_cache, tmp_deb, mirror, attempts, extracted, refs>>
    /\ UNCHANGED notDl

\* line 101: read the next mirror, or leave the loop at end of file
DlRead ==
    /\ dl_pc = "loop"
    /\ IF stdin = <<>>
       THEN /\ dl_pc' = "check"
            /\ UNCHANGED <<stdin, mirror>>
       ELSE /\ mirror' = Head(stdin)
            /\ stdin' = Tail(stdin)
            /\ dl_pc' = "cache"
    /\ UNCHANGED <<dlWorld, mirror_cache, tmp_deb, attempts, extracted, refs>>
    /\ UNCHANGED notDl

\* lines 102-104: `download URL && break`
DlDownload ==
    /\ dl_pc \in {"cache", "filename", "aptly_pool_filename"}
    /\ LET file == AfterCurl(tmp_deb, Fetched(dl_pc, mirror))
           ok == DownloadOk(file)
       IN /\ tmp_deb' = file
          /\ attempts' = Append(attempts,
                 [kind |-> dl_pc,
                  mirror |-> IF dl_pc = "cache" THEN NoMirror ELSE mirror,
                  ok |-> ok])
          /\ dl_pc' = IF ok THEN "check" ELSE NextSource(dl_pc)
    /\ UNCHANGED <<dlWorld, mirror_cache, stdin, mirror, extracted, refs>>
    /\ UNCHANGED notDl

\* lines 106-109
DlCheck ==
    /\ dl_pc = "check"
    /\ dl_pc' = IF tmp_deb = NoFile THEN "failed" ELSE "unpack"
    /\ UNCHANGED <<dlWorld, mirror_cache, tmp_deb, stdin, mirror, attempts, extracted, refs>>
    /\ UNCHANGED notDl

\* lines 110-114: ar x deb.  The record's own archive unpacks; other bytes may
\* or may not be an archive, and set -e ends the script when ar fails.
DlUnpack ==
    /\ dl_pc = "unpack"
    /\ \E is_archive \in BOOLEAN :
          /\ (DownloadOk(tmp_deb) => is_archive)
          /\ IF is_archive
             THEN extracted' = tmp_deb /\ dl_pc' = "commit_data"
             ELSE extracted' = extracted /\ dl_pc' = "failed"
    /\ UNCHANGED <<dlWorld, mirror_cache, tmp_deb, stdin, mirror, attempts, refs>>
    /\ UNCHANGED notDl

\* lines 115-117
DlCommitData ==
    /\ dl_pc = "commit_data"
    /\ refs' = [refs EXCEPT !.data = extracted]
    /\ dl_pc' = "commit_control"
    /\ UNCHANGED <<dlWorld, mirror_cache, tmp_deb, stdin, mirror, attempts, extracted>>
    /\ UNCHANGED notDl

\* lines 118-121
DlCommitControl ==
    /\ dl_pc = "commit_control"
    /\ refs' = [refs EXCEPT !.control = extracted]
    /\ dl_pc' = IF apt_should_mirror THEN "mkdir" ELSE "cleanup"
    /\ UNCHANGED <<dlWorld, mirror_cache, tmp_deb, stdin, mirror, attempts, extracted>>
    /\ UNCHANGED notDl

\* line 122, under set -e: mkdir -p may fail (read-only or full disk, a file
\* in the way)
DlMirrorMkdir ==
    /\ dl_pc = "mkdir"
    /\ \E mkdir_ok \in BOOLEAN : dl_pc' = IF mkdir_ok THEN "mv" ELSE "failed"
    /\ UNCHANGED <<dlWorld, mirror_cache, tmp_deb, stdin, mirror, attempts, extracted, refs>>
    /\ UNCHANGED notDl

\* line 123, under set -e
DlMirrorMv ==
    /\ dl_pc = "mv"
    /\ \E mv_ok \in BOOLEAN :
          IF mv_ok
          THEN mirror_cache' = tmp_deb /\ tmp_deb' = NoFile /\ dl_pc' = "cleanup"
          ELSE UNCHANGED <<mirror_cache, tmp_deb>> /\ dl_pc' = "failed"
    /\ UNCHANGED <<dlWorld, stdin, mirror, attempts, extracted, refs>>
    /\ UNCHANGED notDl

\* line 125
DlCleanup ==
    /\ dl_pc = "cleanup"
    /\ tmp_deb' = NoFile
    /\ dl_pc' = "done"
    /\ UNCHANGED <<dlWorld, mirror_cache, stdin, mirror, attempts, extracted, refs>>
    /\ UNCHANGED notDl

DlNext ==
    \/ DlStart
    \/ DlRead
    \/ DlDownload
    \/ DlCheck
    \/ DlUnpack
    \/ DlCommitData
    \/ DlCommitControl
    \/ DlMirrorMkdir
    \/ DlMirrorMv
    \/ DlCleanup


\* the download_deb variables while no download_deb script is modelled
DlIdle ==
    /\ deb_pool_mirrors = <<>>
    /\ mirrors_file = <<>>
    /\ sha256sum = "D1"
    /\ apt_should_mirror = FALSE
    /\ served = [m \in MirrorNames |-> [k \in UrlKinds |-> NoFile]]
    /\ mirror_cache = NoFile
    /\ tmp_deb = NoFile
    /\ stdin = <<>>
    /\ mirror = NoMirror
    /\ dl_pc = "idle"
    /\ attempts = <<>>
    /\ extracted = NoFile
    /\ refs = [data |-> NoFile, control |-> NoFile]

(***************************************************************************)
(* parse_packages (apt.py 365-382).  Text is a sequence of one-character   *)
(* strings; a line of the stream carries its "\n" unless it is the last    *)
(* line of a file that does not end in one.                                *)
(***************************************************************************)
\* the characters str.strip() removes
Whitespace == {" ", "\n", "\t"}

RECURSIVE LStrip(_)
LStrip(s) == IF s # <<>> /\ Head(s) \in Whitespace THEN LStrip(Tail(s)) ELSE s

RECURSIVE RStrip(_)
RStrip(s) ==
    IF s # <<>> /\ s[Len(s)] \in Whitespace THEN RStrip(SubSeq(s, 1, Len(s) - 1)) ELSE s

\* str.strip()
Strip(s) == RStrip(LStrip(s))

\* line.startswith(" ")
StartsWithSpace(line) == line # <<>> /\ Head(line) = " "

\* index of the first ": " in the line, 0 when there is none
FindColonSpace(line) ==
    LET hits == {i \in 1..(Len(line) - 1) : line[i] = ":" /\ line[i + 1] = " "}
    IN IF hits = {} THEN 0 ELSE CHOOSE i \in hits : \A j \in hits : i <= j

\* value of `label` before a field was seen and after a blank line
None == <<"None">>

\* the empty dict
EmptyPkg == [l \in {} |-> <<>>]

\* d[k] = v on a dict
DictSet(d, k, v) == [l \in DOMAIN d \cup {k} |-> IF l = k THEN v ELSE d[l]]

\* the lines a lockfile is made of
FieldLines == {<<"P", ":", " ", "a", "\n">>, <<"D", ":", " ", "x", "\n">>}
ContinuationLines == {<<" ", "y", "\n">>, <<" ", ".", "\n">>}
BlankLines == {<<"\n">>, <<" ", "\n">>}
TerminatedLines == FieldLines \cup ContinuationLines \cup BlankLines
\* a last line whose file does not end in a newline
UnterminatedLines == {<<"P", ":", " ", "a">>, <<" ", ".">>}

ParseInit ==
    /\ \E body \in BoundedSeq(TerminatedLines, MaxLines) :
          \/ lockfile = body
          \/ /\ Len(body) < MaxLines
             /\ \E last \in UnterminatedLines : lockfile = Append(body, last)
    /\ stream = lockfile
    /\ pkg = EmptyPkg
    /\ label = None
    /\ yielded = <<>>
    /\ parse_pc = "running"

ParseIdle ==
    /\ lockfile = <<>>
    /\ stream = <<>>
    /\ pkg = EmptyPkg
    /\ label = None
    /\ yielded = <<>>
    /\ parse_pc = "idle"

\* line 376: elif line == ' .'
IsDotLine(line) == line = <<" ", ".">>

\* lines 370-375: a blank line ends the paragraph
ParseBlank ==
    /\ parse_pc = "running" /\ stream # <<>>
    /\ Strip(Head(stream)) = <<>>
    /\ yielded' = IF pkg # EmptyPkg THEN Append(yielded, pkg) ELSE yielded
    /\ pkg' = EmptyPkg
    /\ label' = None
    /\ stream' = Tail(stream)
    /\ UNCHANGED <<lockfile, parse_pc>>
    /\ UNCHANGED notParse

\* lines 376-377: pkg[label] += '\n\n'; KeyError when no field was started
ParseDot ==
    /\ parse_pc = "running" /\ stream # <<>>
    /\ Strip(Head(stream)) # <<>>
    /\ IsDotLine(Head(stream))
    /\ IF label \in DOMAIN pkg
       THEN /\ pkg' = DictSet(pkg, label, pkg[label] \o <<"\n", "\n">>)
            /\ UNCHANGED parse_pc
       ELSE /\ parse_pc' = "KeyError"
            /\ UNCHANGED pkg
    /\ stream' = Tail(stream)
    /\ UNCHANGED <<lockfile, label, yielded>>
    /\ UNCHANGED notParse

\* lines 378-379: pkg[label] += '\n' + line[1:].strip()
ParseContinuation ==
    /\ parse_pc = "running" /\ stream # <<>>
    /\ Strip(Head(stream)) # <<>>
    /\ ~IsDotLine(Head(stream))
    /\ StartsWithSpace(Head(stream))
    /\ IF label \in DOMAIN pkg
       THEN /\ pkg' = DictSet(pkg, label,
                         pkg[label] \o <<"\n">> \o Strip(Tail(Head(stream))))
            /\ UNCHANGED parse_pc
       ELSE /\ parse_pc' = "KeyError"
            /\ UNCHANGED pkg
    /\ stream' = Tail(stream)
    /\ UNCHANGED <<lockfile, label, yielded>>
    /\ UNCHANGED notParse

\* lines 380-382: label, data = line.split(': ', 1); ValueError without ': '
ParseField ==
    /\ parse_pc = "running" /\ stream # <<>>
    /\ Strip(Head(stream)) # <<>>
    /\ ~IsDotLine(Head(stream))
    /\ ~StartsWithSpace(Head(stream))
    /\ LET line == Head(stream)
           at == FindColonSpace(line)
       IN IF at = 0
          THEN /\ parse_pc' = "ValueError"
               /\ UNCHANGED <<pkg, label>>
          ELSE /\ label' = SubSeq(line, 1, at - 1)
               /\ pkg' = DictSet(pkg, SubSeq(line, 1, at - 1),
                                 Strip(SubSeq(line, at + 2, Len(line))))
               /\ UNCHANGED parse_pc
    /\ stream' = Tail(stream)
    /\ UNCHANGED <<lockfile, yielded>>
    /\ UNCHANGED notParse

\* line 369 at the end of the stream: the generator returns
ParseEnd ==
    /\ parse_pc = "running" /\ stream = <<>>
    /\ parse_pc' = "done"
    /\ UNCHANGED <<lockfile, stream, pkg, label, yielded>>
    /\ UNCHANGED notParse

ParseNext ==
    \/ ParseBlank
    \/ ParseDot
    \/ ParseContinuation
    \/ ParseField
    \/ ParseEnd

\* the generator run to its end: the records it yields and the exception, if
\* any, that ends it (the loop of lines 369-382, one line per step)
RECURSIVE ParseLoop(_, _, _, _)
ParseLoop(lines, pk, lab, out) ==
    IF lines = <<>> THEN [records |-> out, error |-> "none"]
    ELSE LET line == Head(lines) IN
         IF Strip(line) = <<>>
         THEN ParseLoop(Tail(lines), EmptyPkg, None,
                        IF pk # EmptyPkg THEN Append(out, pk) ELSE out)
         ELSE IF IsDotLine(line)
         THEN IF lab \in DOMAIN pk
              THEN ParseLoop(Tail(lines),
                             DictSet(pk, lab, pk[lab] \o <<"\n", "\n">>), lab, out)
              ELSE [records |-> out, error |-> "KeyError"]
         ELSE IF StartsWithSpace(line)
         THEN IF lab \in DOMAIN pk
              THEN ParseLoop(Tail(lines),
                             DictSet(pk, lab, pk[lab] \o <<"\n">> \o Strip(Tail(line))),
                             lab, out)
              ELSE [records |-> out, error |-> "KeyError"]
         ELSE LET at == FindColonSpace(line) IN
              IF at = 0 THEN [records |-> out, error |-> "ValueError"]
              ELSE ParseLoop(Tail(lines),
                             DictSet(pk, SubSeq(line, 1, at - 1),
                                     Strip(SubSeq(line, at + 2, Len(line)))),
                             SubSeq(line, 1, at - 1), out)

\* parse_packages(f)
parse_packages(lines) == ParseLoop(lines, EmptyPkg, None, <<>>)

(***************************************************************************)
(* Apt.image_from_lockfile (apt.py 299-362).  Names are text, a sequence   *)
(* of one-character strings, as in parse_packages.                         *)
(***************************************************************************)
Min(a, b) == IF a <= b THEN a ELSE b

\* Python's s[a:b] and s[a:], 0 <= a <= b
PySlice(s, a, b) == SubSeq(s, a + 1, Min(b, Len(s)))
PySliceFrom(s, a) == SubSeq(s, a + 1, Len(s))

\* str.replace(old, new) for one-character old and new
ReplaceChar(s, old, new) == [i \in 1..Len(s) |-> IF s[i] = old THEN new ELSE s[i]]

\* the %XX escapes of the characters a Filename of the model may hold
Escapes == {<<"2", "B">>, <<"7", "E">>, <<"2", "F">>}
Unescaped(xx) ==
    CASE xx = <<"2", "B">> -> "+"
      [] xx = <<"7", "E">> -> "~"
      [] OTHER -> "/"

RECURSIVE Unquote(_)
\* urllib.unquote, line 316
Unquote(s) ==
    IF s = <<>> THEN <<>>
    ELSE IF Head(s) = "%" /\ Len(s) >= 3 /\ SubSeq(s, 2, 3) \in Escapes
         THEN <<Unescaped(SubSeq(s, 2, 3))>> \o Unquote(SubSeq(s, 4, Len(s)))
         ELSE <<Head(s)>> \o Unquote(Tail(s))

\* os.path.basename, line 319: what follows the last "/"
Basename(path) ==
    LET slashes == {i \in 1..Len(path) : path[i] = "/"}
        last == IF slashes = {} THEN 0 ELSE CHOOSE i \in slashes : \A j \in slashes : j <= i
    IN SubSeq(path, last + 1, Len(path))

\* text constants of the source
Str_deb_pool == <<"d", "e", "b", "/", "p", "o", "o", "l", "/">>
Str_deb_images == <<"d", "e", "b", "/", "i", "m", "a", "g", "e", "s", "/">>
Str_dpkg_base == <<"d", "e", "b", "/", "d", "p", "k", "g", "-", "b", "a", "s", "e", "/">>
Str_amd64 == <<"a", "m", "d", "6", "4">>
Str_data == <<"/", "d", "a", "t", "a">>
Str_control == <<"/", "c", "o", "n", "t", "r", "o", "l">>
Str_info == <<"/", "i", "n", "f", "o">>
Str_status == <<"s", "t", "a", "t", "u", "s">>
Str_available == <<"a", "v", "a", "i", "l", "a", "b", "l", "e">>
Str_data_combined == <<"/", "d", "a", "t", "a", "_", "c", "o", "m", "b", "i", "n", "e", "d">>
Str_info_combined == <<"/", "i", "n", "f", "o", "_", "c", "o", "m", "b", "i", "n", "e", "d">>
Str_unpacked == <<"/", "u", "n", "p", "a", "c", "k", "e", "d">>
Str_unpacked_image_for == <<"u", "n", "p", "a", "c", "k", "e", "d", "-", "i", "m", "a", "g", "e",
                            "-", "f", "o", "r", "-">>
Label_Package == <<"P", "a", "c", "k", "a", "g", "e">>
Label_SHA256 == <<"S", "H", "A", "2", "5", "6">>
Label_Filename == <<"F", "i", "l", "e", "n", "a", "m", "e">>

\* line 317-319 with the second slice taken one character too long
WidePoolFilename(sha, filename) ==
    PySlice(sha, 0, 2) \o <<"/">> \o PySlice(sha, 2, 5) \o <<"/">>
        \o PySliceFrom(sha, 4) \o <<"_">> \o Basename(filename)

\* lines 317-319: "%s/%s/%s_%s" % (sha[:2], sha[2:4], sha[4:], basename(filename))
AptlyPoolFilename(sha, filename) ==
    PySlice(sha, 0, 2) \o <<"/">> \o PySlice(sha, 2, 4) \o <<"/">>
        \o PySliceFrom(sha, 4) \o <<"_">> \o Basename(filename)

\* line 320: "deb/pool/" + aptly_pool_filename.replace('+', '_').replace('~', '_')
RefBase(pool) == Str_deb_pool \o ReplaceChar(ReplaceChar(pool, "+", "_"), "~", "_")

\* an output or input of a build statement: a ref of the store
\* ($ostree_repo/refs/heads/<branch>) or a file under $builddir
Ref(branch) == <<"ref", branch>>
BuildFile(path) == <<"file", path>>

\* a rule without a pool
NoPool == "none"

\* line 130 without its pool
DownloadDebWithoutPool == "none"

\* line 130: pool="console"
DownloadDebPool == "console"

\* line 235: pool="console"
DpkgConfigurePool == "console"

\* dpkg_base.build, line 302 with the rule's outputs of line 77
DpkgBaseBuild(architecture) ==
    [rule |-> "dpkg_base",
     params |-> [architecture |-> architecture],
     inputs |-> <<>>, implicit |-> <<>>,
     outputs |-> <<Ref(Str_dpkg_base \o architecture)>>,
     pool |-> NoPool]

\* the path of the mirror list, line 309
Str_deb_pool_mirrors == <<"_", "b", "u", "i", "l", "d", "/", "d", "e", "b", "_", "p", "o", "o", "l",
                          "_", "m", "i", "r", "r", "o", "r", "s">>

\* lines 126-130 with the mirror list declared as an input
DownloadDebInputsWithMirrors == <<BuildFile(Str_deb_pool_mirrors)>>

\* lines 80-83 and 126-130: download_deb declares no input, and no dependency
\* on _build/deb_pool_mirrors
DownloadDebInputs == <<>>

\* download_deb.build, lines 321-323 with the rule's outputs and pool, 127-130
DownloadDebBuild(p) ==
    LET filename == Unquote(p[Label_Filename])
        aptly_pool_filename == AptlyPoolFilename(p[Label_SHA256], filename)
        ref_base == RefBase(aptly_pool_filename)
    IN [rule |-> "download_deb",
        params |-> [sha256sum |-> p[Label_SHA256], filename |-> filename,
                    aptly_pool_filename |-> aptly_pool_filename,
                    ref_base |-> ref_base],
        inputs |-> DownloadDebInputs, implicit |-> <<>>,
        outputs |-> <<Ref(ref_base \o Str_data), Ref(ref_base \o Str_control)>>,
        pool |-> DownloadDebPool]

\* line 179 left out: make_dpkg_info with no declared input
MakeDpkgInfoNoInputs(ref_base) == <<>>

\* line 179: inputs=["$ostree_repo/refs/heads/$ref_base/control"]
MakeDpkgInfoInputs(ref_base) == <<Ref(ref_base \o Str_control)>>

\* make_dpkg_info.build, lines 325-327 with the rule's outputs and inputs, 174-179
MakeDpkgInfoBuild(p) ==
    LET ref_base == RefBase(AptlyPoolFilename(p[Label_SHA256], Unquote(p[Label_Filename])))
    IN [rule |-> "make_dpkg_info",
        params |-> [sha256sum |-> p[Label_SHA256], pkgname |-> p[Label_Package],
                    ref_base |-> ref_base],
        inputs |-> MakeDpkgInfoInputs(ref_base), implicit |-> <<>>,
        outputs |-> <<BuildFile(ref_base \o <<"/">> \o Str_status),
                      BuildFile(ref_base \o <<"/">> \o Str_available),
                      Ref(ref_base \o Str_info)>>,
        pool |-> NoPool]

\* ostree_combine.build(ninja, inputs=..., branch=...): one output, the branch
OstreeCombineBuild(inputs, implicit, branch) ==
    [rule |-> "ostree_combine",
     params |-> [branch |-> branch],
     inputs |-> inputs, implicit |-> implicit,
     outputs |-> <<Ref(branch)>>,
     pool |-> NoPool]

\* deb_combine_meta.build, lines 347-353 with the rule's outputs of line 192
DebCombineMetaBuild(inputs, pkgs_digest, meta) ==
    [rule |-> "deb_combine_meta",
     params |-> [pkgs_digest |-> pkgs_digest, meta |-> meta],
     inputs |-> inputs, implicit |-> <<>>,
     outputs |-> <<Ref(Str_deb_images \o pkgs_digest \o <<"/">> \o meta)>>,
     pool |-> NoPool]

\* ninja.build(name, "phony", inputs=...), lines 360-361
PhonyBuild(name, inputs) ==
    [rule |-> "phony",
     params |-> [name |-> name],
     inputs |-> inputs, implicit |-> <<>>,
     outputs |-> <<BuildFile(name)>>,
     pool |-> NoPool]

\* lines 331-336 without the errno test: every IOError is raised again
NoErrnoIsMissing(errno) == FALSE

\* lines 331-336: only ENOENT is swallowed
IsMissingLockfile(errno) == errno = "ENOENT"

\* line 357 with the combined payload left out
ImageInputsWithoutRootfs(base, dpkg_infos, dpkg_status, dpkg_available, rootfs) ==
    base \o dpkg_infos \o dpkg_status \o dpkg_available

\* line 357: inputs=base + dpkg_infos + dpkg_status + dpkg_available + rootfs
ImageInputs(base, dpkg_infos, dpkg_status, dpkg_available, rootfs) ==
    base \o dpkg_infos \o dpkg_status \o dpkg_available \o rootfs

\* the statements image_from_lockfile registers, whether it raises, and the
\* ref it returns (lines 299-362)
ImageFromLockfile(path, errno, lines) ==
    LET base == DpkgBaseBuild(Str_amd64)
        parsed == IF errno = "none" THEN parse_packages(lines)
                  ELSE [records |-> <<>>, error |-> "IOError"]
        pkgs == parsed.records
        per_pkg == Flatten([i \in 1..Len(pkgs) |->
                       <<DownloadDebBuild(pkgs[i]), MakeDpkgInfoBuild(pkgs[i])>>])
        raised == IF errno # "none" THEN ~IsMissingLockfile(errno)
                  ELSE parsed.error # "none"
        all_data == [i \in 1..Len(pkgs) |-> DownloadDebBuild(pkgs[i]).outputs[1]]
        all_status == [i \in 1..Len(pkgs) |-> MakeDpkgInfoBuild(pkgs[i]).outputs[1]]
        all_available == [i \in 1..Len(pkgs) |-> MakeDpkgInfoBuild(pkgs[i]).outputs[2]]
        all_info == [i \in 1..Len(pkgs) |-> MakeDpkgInfoBuild(pkgs[i]).outputs[3]]
        digest == ReplaceChar(path, "/", "_")
        rootfs == OstreeCombineBuild(all_data, <<>>,
                      Str_deb_images \o digest \o Str_data_combined)
        dpkg_infos == OstreeCombineBuild(all_info, <<>>,
                          Str_deb_images \o digest \o Str_info_combined)
        dpkg_status == DebCombineMetaBuild(all_status, digest, Str_status)
        dpkg_available == DebCombineMetaBuild(all_available, digest, Str_available)
        image == OstreeCombineBuild(
                     ImageInputs(base.outputs, dpkg_infos.outputs, dpkg_status.outputs,
                                 dpkg_available.outputs, rootfs.outputs),
                     <<BuildFile(path)>>,
                     Str_deb_images \o digest \o Str_unpacked)
    IN IF raised
       THEN [builds |-> <<base>> \o per_pkg, raised |-> TRUE, image |-> <<>>]
       ELSE [builds |-> <<base>> \o per_pkg
                          \o <<rootfs, dpkg_infos, dpkg_status, dpkg_available, image,
                               PhonyBuild(Str_unpacked_image_for \o path, image.outputs)>>,
             raised |-> FALSE,
             image |-> image.outputs[1]]

\* a package record as parse_packages yields it
Rec(pkgname, sha, filename) ==
    DictSet(DictSet(DictSet(EmptyPkg, Label_Package, pkgname), Label_SHA256, sha),
            Label_Filename, filename)

\* the records a lockfile of the model may hold: digests of several lengths,
\* file names with '+', '~' and %XX escapes, with and without a directory,
\* and two versions of one package
PackageRecords ==
    {Rec(<<"a">>, <<"0", "a", "1", "b", "2", "c">>, <<"p", "/", "a", "+", "1">>),
     Rec(<<"g">>, <<"f", "f", "0", "0", "e">>, <<"p", "/", "g", "%", "2", "B", "~", "2">>),
     Rec(<<"a">>, <<"a", "b", "c">>, <<"b", "~", "3">>),
     Rec(<<"c">>, <<"9", "8", "7", "6", "5", "4">>, <<"q", "%", "2", "F", "c", "_", "4">>)}

\* the paragraph of a record in the lockfile, without the blank line after it
ParagraphOf(p) ==
    <<Label_Package \o <<":", " ">> \o p[Label_Package] \o <<"\n">>,
      Label_SHA256 \o <<":", " ">> \o p[Label_SHA256] \o <<"\n">>,
      Label_Filename \o <<":", " ">> \o p[Label_Filename] \o <<"\n">>>>

\* a lockfile: paragraphs separated by blank lines, the last one followed by
\* a blank line or not
LockfileText(recs, blank_after_last) ==
    Flatten([i \in 1..Len(recs) |->
        ParagraphOf(recs[i])
            \o (IF i < Len(recs) \/ blank_after_last THEN <<<<"\n">>>> ELSE <<>>)])

\* the lockfile arguments of the model
LockfilePaths == {<<"a", ".", "l">>, <<"d", "/", "a", ".", "l">>}

\* a tree of the store: file path -> content; a path is <<directory, name>>
EmptyTree == [x \in {} |-> <<>>]
Tree1(dir, name, content) == [x \in {<<dir, name>>} |-> content]

\* what dpkg_base commits (lines 55-64), in part
BaseTree ==
    [x \in {<<"/etc/", <<"shells">>>>, <<"/var/lib/dpkg/info/", <<"format">>>>,
            <<"/var/lib/dpkg/", <<"arch">>>>} |->
        IF x[2] = <<"format">> THEN <<"1">>
        ELSE IF x[2] = <<"arch">> THEN Str_amd64 ELSE <<>>]

\* payloads a package's data.tar may hold
DataTrees ==
    {EmptyTree,
     Tree1("/usr/bin/", <<"x">>, <<"x1">>),
     Tree1("/usr/bin/", <<"x">>, <<"x2">>),
     Tree1("/etc/", <<"shells">>, <<"sh">>)}

\* ostree_combine's commit of the union of its input trees, failing on a path
\* that two inputs hold (spec 4.4)
RECURSIVE OstreeCombine(_, _)
OstreeCombine(trees, acc) ==
    IF trees = <<>> THEN [ok |-> TRUE, tree |-> acc]
    ELSE IF DOMAIN Head(trees) \cap DOMAIN acc # {}
         THEN [ok |-> FALSE, tree |-> acc]
         ELSE OstreeCombine(Tail(trees),
                  [x \in DOMAIN acc \cup DOMAIN Head(trees) |->
                      IF x \in DOMAIN acc THEN acc[x] ELSE Head(trees)[x]])

\* whether an input of a statement is there
Available(input) ==
    IF input[1] = "ref" THEN input[2] \in DOMAIN store
    ELSE IF input[2] = lockfile_path THEN lockfile_errno = "none"
    ELSE input[2] \in DOMAIN build_files

ImgInit ==
    /\ lockfile_path \in LockfilePaths
    /\ lockfile_errno \in {"none", "ENOENT", "EACCES"}
    /\ IF lockfile_errno = "none"
       THEN \E recs \in BoundedSeq(PackageRecords, MaxPkgs) : \E blank \in BOOLEAN :
               /\ \A i, j \in 1..Len(recs) : i # j => recs[i] # recs[j]
               /\ (recs = <<>> => blank)
               /\ lockfile = LockfileText(recs, blank)
       ELSE lockfile = <<>>
    /\ deb_pool_mirrors \in {<<>>, <<"A", "B">>}
    /\ ninja_builds = <<>>
    /\ img_result = [state |-> "pending", ref |-> <<>>]
    /\ store = EmptyPkg
    /\ build_files = EmptyPkg
    /\ next_build = 1
    /\ failed = {}

ImgIdle ==
    /\ lockfile_path = <<>>
    /\ lockfile_errno = "none"
    /\ ninja_builds = <<>>
    /\ img_result = [state |-> "idle", ref |-> <<>>]
    /\ store = EmptyPkg
    /\ build_files = EmptyPkg
    /\ next_build = 1
    /\ failed = {}

\* Apt.image_from_lockfile(lockfile), lines 299-362
ImgGenerate ==
    /\ img_result.state = "pending"
    /\ LET r == ImageFromLockfile(lockfile_path, lockfile_errno, lockfile) IN
          /\ ninja_builds' = r.builds
          /\ img_result' = [state |-> IF r.raised THEN "raised" ELSE "returned",
                             ref |-> r.image]
    /\ mirrors_file' = WriteMirrorsFile(deb_pool_mirrors)
    /\ UNCHANGED <<lockfile_path, lockfile_errno, store, build_files, next_build, failed>>
    /\ UNCHANGED <<deb_pool_mirrors, sha256sum, apt_should_mirror, served, mirror_cache,
                   tmp_deb, stdin, mirror, dl_pc, attempts, extracted, refs>>
    /\ UNCHANGED parseVars
    /\ UNCHANGED notImg

\* the statement ninja is about to run
Generated == img_result.state = "returned"
Current == ninja_builds[next_build]
CanRun(rule) ==
    /\ Generated
    /\ next_build <= Len(ninja_builds)
    /\ Current.rule = rule
    /\ \A k \in 1..Len(Current.inputs) : Available(Current.inputs[k])
    /\ \A k \in 1..Len(Current.implicit) : Available(Current.implicit[k])

\* a statement whose inputs were not made is not run
ImgSkip ==
    /\ Generated
    /\ next_build <= Len(ninja_builds)
    /\ \/ \E k \in 1..Len(Current.inputs) : ~Available(Current.inputs[k])
       \/ \E k \in 1..Len(Current.implicit) : ~Available(Current.implicit[k])
    /\ failed' = failed \cup {next_build}
    /\ next_build' = next_build + 1
    /\ UNCHANGED <<lockfile_path, lockfile_errno, ninja_builds, img_result, store, build_files>>
    /\ UNCHANGED <<dlVars, parseVars>>
    /\ UNCHANGED notImg

\* dpkg_base, lines 39-78
ImgRunDpkgBase ==
    /\ CanRun("dpkg_base")
    /\ store' = DictSet(store, Current.outputs[1][2], BaseTree)
    /\ next_build' = next_build + 1
    /\ UNCHANGED <<lockfile_path, lockfile_errno, ninja_builds, img_result, build_files, failed>>
    /\ UNCHANGED <<dlVars, parseVars>>
    /\ UNCHANGED notImg

\* download_deb, lines 84-130, as one step: it fails, or commits the payload
\* and the control archive of the .deb it unpacked
ImgRunDownloadDeb ==
    /\ CanRun("download_deb")
    /\ \/ /\ failed' = failed \cup {next_build}
          /\ UNCHANGED store
       \/ /\ \E data \in DataTrees :
                store' = DictSet(DictSet(store, Current.outputs[1][2], data),
                                 Current.outputs[2][2],
                                 Tree1("", <<"control">>, Current.params.sha256sum))
          /\ UNCHANGED failed
    /\ next_build' = next_build + 1
    /\ UNCHANGED <<lockfile_path, lockfile_errno, ninja_builds, img_result, build_files>>
    /\ UNCHANGED <<dlVars, parseVars>>
    /\ UNCHANGED notImg

\* make_dpkg_info, lines 132-179: $pkgname.list in the info tree, and the
\* status and available files made from control/control
ImgRunMakeDpkgInfo ==
    /\ CanRun("make_dpkg_info")
    /\ LET control == store[Current.inputs[1][2]][<<"", <<"control">>>>] IN
          /\ store' = DictSet(store, Current.outputs[3][2],
                          Tree1("/var/lib/dpkg/info/",
                                Current.params.pkgname \o <<".list">>, <<"list">>))
          /\ build_files' =
                DictSet(DictSet(build_files, Current.outputs[1][2],
                                control \o <<"Status: install ok unpacked", "\n">>),
                        Current.outputs[2][2], control \o <<"\n">>)
    /\ next_build' = next_build + 1
    /\ UNCHANGED <<lockfile_path, lockfile_errno, ninja_builds, img_result, failed>>
    /\ UNCHANGED <<dlVars, parseVars>>
    /\ UNCHANGED notImg

\* deb_combine_meta, lines 181-194: cat $in >var/lib/dpkg/$meta
ImgRunDebCombineMeta ==
    /\ CanRun("deb_combine_meta")
    /\ store' = DictSet(store, Current.outputs[1][2],
                    Tree1("/var/lib/dpkg/", Current.params.meta,
                          Flatten([k \in 1..Len(Current.inputs) |->
                                      build_files[Current.inputs[k][2]]])))
    /\ next_build' = next_build + 1
    /\ UNCHANGED <<lockfile_path, lockfile_errno, ninja_builds, img_result, build_files, failed>>
    /\ UNCHANGED <<dlVars, parseVars>>
    /\ UNCHANGED notImg

\* ostree_combine: the union is committed, or the step fails on a conflict
ImgRunOstreeCombine ==
    /\ CanRun("ostree_combine")
    /\ LET r == OstreeCombine([k \in 1..Len(Current.inputs) |->
                                  store[Current.inputs[k][2]]], EmptyTree)
       IN IF r.ok
          THEN /\ store' = DictSet(store, Current.outputs[1][2], r.tree)
               /\ UNCHANGED failed
          ELSE /\ failed' = failed \cup {next_build}
               /\ UNCHANGED store
    /\ next_build' = next_build + 1
    /\ UNCHANGED <<lockfile_path, lockfile_errno, ninja_builds, img_result, build_files>>
    /\ UNCHANGED <<dlVars, parseVars>>
    /\ UNCHANGED notImg

\* a phony statement runs nothing: it is up to date once its inputs are
ImgRunPhony ==
    /\ CanRun("phony")
    /\ build_files' = DictSet(build_files, Current.outputs[1][2], <<>>)
    /\ next_build' = next_build + 1
    /\ UNCHANGED <<lockfile_path, lockfile_errno, ninja_builds, img_result, store, failed>>
    /\ UNCHANGED <<dlVars, parseVars>>
    /\ UNCHANGED notImg

ImgNext ==
    \/ ImgGenerate
    \/ ImgRunPhony
    \/ ImgSkip
    \/ ImgRunDpkgBase
    \/ ImgRunDownloadDeb
    \/ ImgRunMakeDpkgInfo
    \/ ImgRunDebCombineMeta
    \/ ImgRunOstreeCombine

(***************************************************************************)
(* Apt.build_image (apt.py 259-275) and ninja's run of what it registers.  *)
(***************************************************************************)
Str_word_unpacked == <<"u", "n", "p", "a", "c", "k", "e", "d">>
Str_word_configured == <<"c", "o", "n", "f", "i", "g", "u", "r", "e", "d">>
Str_update_lockfile == <<"u", "p", "d", "a", "t", "e", "-", "l", "o", "c", "k", "f", "i", "l", "e", "-">>
Str_image_for == <<"i", "m", "a", "g", "e", "-", "f", "o", "r", "-">>

RECURSIVE ReplaceAll(_, _, _)
\* str.replace(old, new), old not empty
ReplaceAll(s, old, new) ==
    IF Len(s) < Len(old) THEN s
    ELSE IF SubSeq(s, 1, Len(old)) = old
         THEN new \o ReplaceAll(SubSeq(s, Len(old) + 1, Len(s)), old, new)
         ELSE <<Head(s)>> \o ReplaceAll(Tail(s), old, new)

\* update_lockfile.build, lines 291-295 with the rule's inputs and outputs, 37
UpdateLockfileBuild(path) ==
    [rule |-> "update_lockfile",
     params |-> [lockfile |-> path],
     inputs |-> <<BuildFile(<<".", "F", "O", "R", "C", "E">>)>>, implicit |-> <<>>,
     outputs |-> <<BuildFile(Str_update_lockfile \o path)>>,
     pool |-> NoPool]

\* dpkg_configure.build, lines 270-273 with the rule's outputs, inputs and
\* pool, 230-235
DpkgConfigureBuild(unpacked_ref) ==
    LET out_branch == ReplaceAll(unpacked_ref, Str_word_unpacked, Str_word_configured)
    IN [rule |-> "dpkg_configure",
        params |-> [in_branch |-> unpacked_ref, out_branch |-> out_branch],
        inputs |-> <<Ref(unpacked_ref)>>, implicit |-> <<>>,
        outputs |-> <<Ref(out_branch)>>,
        pool |-> DpkgConfigurePool]

\* Apt.build_image(lockfile), lines 259-275, for a lockfile that parses
BuildImage(path, lines) ==
    LET unpacked == ImageFromLockfile(path, "none", lines)
        configure == DpkgConfigureBuild(unpacked.image[2])
    IN <<UpdateLockfileBuild(path)>> \o unpacked.builds
          \o <<configure, PhonyBuild(Str_image_for \o path, configure.outputs)>>

RECURSIVE Dedup(_, _)
\* one statement per set of outputs: a statement registered again for another
\* image (dpkg_base, a shared package) is the same statement
Dedup(builds, seen) ==
    IF builds = <<>> THEN <<>>
    ELSE IF Head(builds).outputs \in seen THEN Dedup(Tail(builds), seen)
         ELSE <<Head(builds)>> \o Dedup(Tail(builds), seen \cup {Head(builds).outputs})

\* the statements with a command that `ninja image-for-...` has to run:
\* phony statements run nothing and update_lockfile is not asked for
Commands(builds) ==
    SelectSeq(Dedup(builds, {}), LAMBDA b : b.rule \notin {"phony", "update_lockfile"})

\* the images built together: two lockfiles with a package each
SchedRecords ==
    <<Rec(<<"a">>, <<"0", "a", "1", "b", "2", "c">>, <<"p", "/", "a", "+", "1">>),
      Rec(<<"g">>, <<"f", "f", "0", "0", "e">>, <<"p", "/", "g", "%", "2", "B", "~", "2">>)>>
SchedLockfiles == <<<<"a", ".", "l">>, <<"b", ".", "l">>>>

\* ninja's console pool has depth 1
ConsolePoolDepth == 1

SchedInit ==
    /\ sched_builds = Commands(Flatten([i \in 1..Len(SchedLockfiles) |->
           BuildImage(SchedLockfiles[i], LockfileText(<<SchedRecords[i]>>, TRUE))]))
    /\ sched_status = [k \in 1..Len(sched_builds) |-> "waiting"]
    /\ sched_store = {}

SchedIdle ==
    /\ sched_builds = <<>>
    /\ sched_status = <<>>
    /\ sched_store = {}

Running == {k \in 1..Len(sched_builds) : sched_status[k] = "running"}

\* the statement, if any, that makes an input
Producers(input) ==
    {j \in 1..Len(sched_builds) :
        \E o \in 1..Len(sched_builds[j].outputs) : sched_builds[j].outputs[o] = input}

\* every input of statement k that a statement makes has been made
InputsDone(k) ==
    \A i \in 1..Len(sched_builds[k].inputs) :
       \A j \in Producers(sched_builds[k].inputs[i]) : sched_status[j] = "done"

\* a statement of a pool starts only while the pool has room
PoolHasRoom(k) ==
    sched_builds[k].pool = "console" =>
       Cardinality({j \in Running : sched_builds[j].pool = "console"}) < ConsolePoolDepth

\* ninja starts a statement
SchedStart ==
    /\ \E k \in 1..Len(sched_builds) :
          /\ sched_status[k] = "waiting"
          /\ InputsDone(k)
          /\ Cardinality(Running) < MaxJobs
          /\ PoolHasRoom(k)
          /\ sched_status' = [sched_status EXCEPT ![k] = "running"]
    /\ UNCHANGED <<sched_builds, sched_store>>
    /\ UNCHANGED notSched

\* the outputs of a statement
OutputsOf(b) == {b.outputs[o] : o \in 1..Len(b.outputs)}

\* a command exits 0: its outputs have been committed or written
SchedFinish ==
    /\ \E k \in Running :
          /\ sched_status' = [sched_status EXCEPT ![k] = "done"]
          /\ sched_store' = sched_store \cup OutputsOf(sched_builds[k])
    /\ UNCHANGED sched_builds
    /\ UNCHANGED notSched

\* a download_deb or dpkg_configure script exits non-zero (set -e), having
\* committed none of its outputs, the first (download_deb commits data at
\* line 115, then control at line 118) or all of them
SchedFail ==
    /\ \E k \in Running :
          /\ sched_builds[k].rule \in {"download_deb", "dpkg_configure"}
          /\ sched_status' = [sched_status EXCEPT ![k] = "failed"]
          /\ \E n \in 0..Len(sched_builds[k].outputs) :
                sched_store' = sched_store \cup {sched_builds[k].outputs[o] : o \in 1..n}
    /\ UNCHANGED sched_builds
    /\ UNCHANGED notSched

SchedNext ==
    \/ SchedStart
    \/ SchedFinish
    \/ SchedFail

(***************************************************************************)
(* Two runs in one workspace: the generator (apt.py 299-362) registers the *)
(* statements of each run, and ninja runs those that are not up to date.   *)
(***************************************************************************)
\* the records of the lockfiles of the two runs: two versions of one package
\* and another package
RerunRecords ==
    {Rec(<<"a">>, <<"0", "a", "1", "b", "2", "c">>, <<"p", "/", "a", "+", "1">>),
     Rec(<<"g">>, <<"f", "f", "0", "0", "e">>, <<"p", "/", "g", "%", "2", "B", "~", "2">>),
     Rec(<<"a">>, <<"a", "b", "c">>, <<"b", "~", "3">>)}

\* the lockfiles of a run: records in any order, none twice
RerunLockfiles ==
    {LockfileText(recs, TRUE) :
        recs \in {r \in BoundedSeq(RerunRecords, MaxPkgs) :
                     \A i, j \in 1..Len(r) : i # j => r[i] # r[j]}}

\* the bytes the mirrors serve for a digest, unpacked: the payload of the
\* .deb, a file named after the digest
DebPayload(sha) == Tree1("/usr/bin/", sha, <<"x">>)

\* the rules declared with restat=True (lines 76, 126, 173)
Restat(rule) == rule \in {"dpkg_base", "download_deb", "make_dpkg_info"}

\* what running the command of statement b does to the store and to the
\* files under $builddir
Execute(b, st, files) ==
    CASE b.rule = "dpkg_base" ->
            [ok |-> TRUE, store |-> DictSet(st, b.outputs[1][2], BaseTree), files |-> files]
      [] b.rule = "download_deb" ->
            [ok |-> TRUE,
             store |-> DictSet(DictSet(st, b.outputs[1][2], DebPayload(b.params.sha256sum)),
                               b.outputs[2][2],
                               Tree1("", <<"control">>, b.params.sha256sum)),
             files |-> files]
      [] b.rule = "make_dpkg_info" ->
            LET control == st[b.inputs[1][2]][<<"", <<"control">>>>] IN
               [ok |-> TRUE,
                store |-> DictSet(st, b.outputs[3][2],
                              Tree1("/var/lib/dpkg/info/",
                                    b.params.pkgname \o <<".list">>, <<"list">>)),
                files |-> DictSet(DictSet(files, b.outputs[1][2],
                                          control \o <<"Status: install ok unpacked", "\n">>),
                                  b.outputs[2][2], control \o <<"\n">>)]
      [] b.rule = "deb_combine_meta" ->
            [ok |-> TRUE,
             store |-> DictSet(st, b.outputs[1][2],
                           Tree1("/var/lib/dpkg/", b.params.meta,
                                 Flatten([k \in 1..Len(b.inputs) |-> files[b.inputs[k][2]]]))),
             files |-> files]
      [] b.rule = "ostree_combine" ->
            LET r == OstreeCombine([k \in 1..Len(b.inputs) |-> st[b.inputs[k][2]]], EmptyTree)
            IN IF r.ok
               THEN [ok |-> TRUE, store |-> DictSet(st, b.outputs[1][2], r.tree),
                     files |-> files]
               ELSE [ok |-> FALSE, store |-> st, files |-> files]
      [] OTHER ->
            [ok |-> TRUE, store |-> st, files |-> DictSet(files, b.outputs[1][2], <<>>)]

\* the content of an input or output, as a pair that is <<FALSE, ...>> when
\* it is not there
ContentOf(x, st, files) ==
    IF x[1] = "ref"
    THEN IF x[2] \in DOMAIN st THEN <<TRUE, st[x[2]]>> ELSE <<FALSE, EmptyTree>>
    ELSE IF x[2] \in DOMAIN files THEN <<TRUE, files[x[2]]>> ELSE <<FALSE, <<>>>>

RrPresent(x) == ContentOf(x, rr_store, rr_files)[1]

\* the statement ninja looks at
RrCurrent == rr_builds[rr_run][rr_next]

\* what the statement reads: its inputs and its implicit inputs
RrInputs(b) == b.inputs \o b.implicit

\* a statement is up to date when it has run with this command and these
\* inputs and outputs, its outputs are there and no input has changed since
RrUpToDate(b) ==
    /\ b \in rr_log
    /\ \A k \in 1..Len(b.outputs) : RrPresent(b.outputs[k])
    /\ \A k \in 1..Len(RrInputs(b)) : RrInputs(b)[k] \notin rr_changed

RerunInit ==
    /\ rr_path \in LockfilePaths
    /\ rr_lockfiles \in RerunLockfiles \X RerunLockfiles
    /\ rr_mirrors \in {<<"A", "B">>} \X {<<"A", "B">>, <<"B">>}
    /\ rr_run = 1
    /\ rr_pc = "generate"
    /\ rr_builds = <<<<>>, <<>>>>
    /\ rr_next = 1
    /\ rr_store = EmptyPkg
    /\ rr_files = EmptyPkg
    /\ rr_log = {}
    /\ rr_changed = {}
    /\ rr_executed = <<{}, {}>>
    /\ rr_images = <<[ok |-> FALSE, tree |-> EmptyTree], [ok |-> FALSE, tree |-> EmptyTree]>>

\* the rerun variables while no run is modelled
RerunIdle ==
    /\ rr_path = <<>>
    /\ rr_lockfiles = <<<<>>, <<>>>>
    /\ rr_mirrors = <<<<>>, <<>>>>
    /\ rr_run = 1
    /\ rr_pc = "idle"
    /\ rr_builds = <<<<>>, <<>>>>
    /\ rr_next = 1
    /\ rr_store = EmptyPkg
    /\ rr_files = EmptyPkg
    /\ rr_log = {}
    /\ rr_changed = {}
    /\ rr_executed = <<{}, {}>>
    /\ rr_images = <<[ok |-> FALSE, tree |-> EmptyTree], [ok |-> FALSE, tree |-> EmptyTree]>>

\* the generator runs on the lockfile and the mirror list of this run:
\* image_from_lockfile writes _build/deb_pool_mirrors (lines 309-311) and
\* registers the statements
RrGenerate ==
    /\ rr_pc = "generate"
    /\ LET files == DictSet(DictSet(rr_files, rr_path, rr_lockfiles[rr_run]),
                            Str_deb_pool_mirrors, WriteMirrorsFile(rr_mirrors[rr_run]))
       IN /\ rr_files' = files
          /\ rr_changed' =
                {BuildFile(f) : f \in {g \in {rr_path, Str_deb_pool_mirrors} :
                                          g \notin DOMAIN rr_files \/ rr_files[g] # files[g]}}
    /\ rr_builds' = [rr_builds EXCEPT
                        ![rr_run] = ImageFromLockfile(rr_path, "none", rr_lockfiles[rr_run]).builds]
    /\ rr_next' = 1
    /\ rr_pc' = "build"
    /\ UNCHANGED <<rr_path, rr_lockfiles, rr_mirrors, rr_run, rr_store, rr_log,
                   rr_executed, rr_images>>
    /\ UNCHANGED notRerun

\* a statement one of whose inputs was not made is not run
RrSkip ==
    /\ rr_pc = "build" /\ rr_next <= Len(rr_builds[rr_run])
    /\ \E k \in 1..Len(RrInputs(RrCurrent)) : ~RrPresent(RrInputs(RrCurrent)[k])
    /\ rr_next' = rr_next + 1
    /\ UNCHANGED <<rr_path, rr_lockfiles, rr_mirrors, rr_run, rr_pc, rr_builds, rr_store,
                   rr_files, rr_log, rr_changed, rr_executed, rr_images>>
    /\ UNCHANGED notRerun

\* a statement that is up to date is not run
RrKeep ==
    /\ rr_pc = "build" /\ rr_next <= Len(rr_builds[rr_run])
    /\ \A k \in 1..Len(RrInputs(RrCurrent)) : RrPresent(RrInputs(RrCurrent)[k])
    /\ RrUpToDate(RrCurrent)
    /\ rr_next' = rr_next + 1
    /\ UNCHANGED <<rr_path, rr_lockfiles, rr_mirrors, rr_run, rr_pc, rr_builds, rr_store,
                   rr_files, rr_log, rr_changed, rr_executed, rr_images>>
    /\ UNCHANGED notRerun

\* ninja runs the command of a statement that is not up to date; an output
\* of a restat rule counts as changed only when its content is new
RrExecute ==
    /\ rr_pc = "build" /\ rr_next <= Len(rr_builds[rr_run])
    /\ \A k \in 1..Len(RrInputs(RrCurrent)) : RrPresent(RrInputs(RrCurrent)[k])
    /\ ~RrUpToDate(RrCurrent)
    /\ LET b == RrCurrent
           r == Execute(b, rr_store, rr_files)
       IN /\ rr_store' = r.store
          /\ rr_files' = r.files
          /\ rr_log' = IF r.ok THEN rr_log \cup {b} ELSE rr_log \ {b}
          /\ rr_changed' = rr_changed \cup
                {b.outputs[k] : k \in {i \in 1..Len(b.outputs) :
                    /\ r.ok
                    /\ \/ ~Restat(b.rule)
                       \/ ContentOf(b.outputs[i], r.store, r.files)
                             # ContentOf(b.outputs[i], rr_store, rr_files)}}
          /\ rr_executed' = [rr_executed EXCEPT ![rr_run] = @ \cup {b}]
    /\ rr_next' = rr_next + 1
    /\ UNCHANGED <<rr_path, rr_lockfiles, rr_mirrors, rr_run, rr_pc, rr_builds, rr_images>>
    /\ UNCHANGED notRerun

\* ninja has looked at every statement: the run ends, and the next one starts
\* from the workspace it left
RrFinish ==
    /\ rr_pc = "build" /\ rr_next > Len(rr_builds[rr_run])
    /\ LET image == Str_deb_images \o ReplaceChar(rr_path, "/", "_") \o Str_unpacked IN
          rr_images' = [rr_images EXCEPT
                           ![rr_run] = IF image \in DOMAIN rr_store
                                       THEN [ok |-> TRUE, tree |-> rr_store[image]]
                                       ELSE [ok |-> FALSE, tree |-> EmptyTree]]
    /\ IF rr_run = 1
       THEN rr_run' = 2 /\ rr_pc' = "generate"
       ELSE rr_run' = 2 /\ rr_pc' = "done"
    /\ UNCHANGED <<rr_path, rr_lockfiles, rr_mirrors, rr_builds, rr_next, rr_store, rr_files,
                   rr_log, rr_changed, rr_executed>>
    /\ UNCHANGED notRerun

RerunNext ==
    \/ RrGenerate
    \/ RrSkip
    \/ RrKeep
    \/ RrExecute
    \/ RrFinish

(***************************************************************************)
(* The make_dpkg_info script (apt.py 132-179) and the update_lockfile      *)
(* script (apt.py 22-37), step by step.  A file is a record: whether it is *)
(* there, its content, and whether this run has written it.                *)
(***************************************************************************)
NoTarget == [exists |-> FALSE, content |-> <<>>, touched |-> FALSE]
Untouched(content) == [exists |-> TRUE, content |-> content, touched |-> FALSE]
Written(content) == [exists |-> TRUE, content |-> content, touched |-> TRUE]

\* lines 134-138 with the comparison left out: always mv $1 $2
OverwriteAlways(new, target) == Written(new)

\* overwrite_if_changed, lines 134-138: if ! cmp $1 $2; then mv $1 $2; fi.
\* cmp fails when the files differ and when $2 is not there
OverwriteIfChanged(new, target) ==
    IF target.exists /\ target.content = new THEN target ELSE Written(new)

\* the control files make_dpkg_info keeps, lines 148-158
KnownControlFiles ==
    {"conffiles", "config", "md5sums", "postinst", "postrm", "preinst", "prerm", "shlibs",
     "symbols", "templates", "triggers"}

\* $pkgname of the run
InfoPkgName == <<"a">>

\* the control files of the model: control/control in two versions, and
\* archives with some of postinst, md5sums and a file make_dpkg_info does
\* not know
ControlTexts == {<<"Package: a\n">>, <<"Package: a\n", "Version: 2\n">>}
ControlArchives ==
    {[x \in {"control"} \cup extra |-> IF x = "control" THEN text ELSE <<x>>] :
        extra \in SUBSET {"postinst", "md5sums", "copyright"}, text \in ControlTexts}

\* lines 143-145: the paths of the payload, the root written "/."
Manifest(data) == {<<"/", <<".">>>>} \cup DOMAIN data

\* line 163 without the Status line
StatusRecordWithoutMarker(control) == control \o <<"\n", "\n">>

\* line 163: ( cat control/control; echo Status: install ok unpacked; echo )
StatusRecord(control) == control \o <<"Status: install ok unpacked\n", "\n">>

\* line 164: ( cat control/control; echo )
AvailableRecord(control) == control \o <<"\n">>

\* a file of var/lib/dpkg/info in $tmpdir/out: $pkgname.<suffix>
InfoPath(suffix) == <<"/var/lib/dpkg/info/", <<InfoPkgName, suffix>>>>

\* the listings aptly may print
Listings == {<<"Package: a\n">>, <<"Package: a\n", "Package: g\n">>, <<>>}

NoTmp == [control |-> EmptyPkg, status |-> NoTarget, available |-> NoTarget]
NoInfo == [committed |-> FALSE, tree |-> EmptyTree]

InfoInit ==
    /\ mi_task \in {"make_dpkg_info", "update_lockfile"}
    /\ mi_pc = "start"
    /\ IF mi_task = "make_dpkg_info"
       THEN /\ mi_data \in {EmptyTree, Tree1("/usr/bin/", <<"x">>, <<"x1">>)}
            /\ mi_control \in ControlArchives
            /\ mi_files \in [{"status", "available"} ->
                   {NoTarget} \cup {Untouched(StatusRecord(t)) : t \in ControlTexts}
                              \cup {Untouched(AvailableRecord(t)) : t \in ControlTexts}]
            /\ ul_listing = <<>>
            /\ ul_lockfile = NoTarget
            /\ ul_tilde = NoTarget
       ELSE /\ mi_data = EmptyTree
            /\ mi_control = EmptyPkg
            /\ mi_files = [f \in {"status", "available"} |-> NoTarget]
            /\ ul_listing \in Listings
            /\ ul_lockfile \in {NoTarget} \cup {Untouched(l) : l \in Listings}
            /\ ul_tilde \in {NoTarget} \cup {Untouched(l) : l \in Listings}
    /\ mi_out = EmptyTree
    /\ mi_tmp = NoTmp
    /\ mi_info = NoInfo
    /\ mi_before = mi_files
    /\ ul_before = ul_lockfile

\* the variables while neither script is modelled
InfoIdle ==
    /\ mi_task = "none"
    /\ mi_pc = "idle"
    /\ mi_data = EmptyTree
    /\ mi_control = EmptyPkg
    /\ mi_out = EmptyTree
    /\ mi_tmp = NoTmp
    /\ mi_info = NoInfo
    /\ mi_files = [f \in {"status", "available"} |-> NoTarget]
    /\ mi_before = mi_files
    /\ ul_listing = <<>>
    /\ ul_tilde = NoTarget
    /\ ul_lockfile = NoTarget
    /\ ul_before = NoTarget

ulFrame == <<ul_listing, ul_tilde, ul_lockfile, ul_before>>
miWorld == <<mi_task, mi_data, mi_control, mi_before>>

\* lines 139-142: rm -rf "$tmpdir"; mkdir -p $tmpdir/out/var/lib/dpkg/info
MiStart ==
    /\ mi_task = "make_dpkg_info" /\ mi_pc = "start"
    /\ mi_out' = EmptyTree
    /\ mi_tmp' = NoTmp
    /\ mi_pc' = "list"
    /\ UNCHANGED <<miWorld, mi_info, mi_files, ulFrame>>
    /\ UNCHANGED notInfo

\* lines 143-145: ostree ls -R $ref_base/data ... >out/var/lib/dpkg/info/$pkgname.list
MiList ==
    /\ mi_pc = "list"
    /\ mi_out' = DictSet(mi_out, InfoPath("list"), Manifest(mi_data))
    /\ mi_pc' = "checkout"
    /\ UNCHANGED <<miWorld, mi_tmp, mi_info, mi_files, ulFrame>>
    /\ UNCHANGED notInfo

\* line 146: ostree checkout -UH "$ref_base/control" "$tmpdir/control"
MiCheckout ==
    /\ mi_pc = "checkout"
    /\ mi_tmp' = [mi_tmp EXCEPT !.control = mi_control]
    /\ mi_pc' = "scripts"
    /\ UNCHANGED <<miWorld, mi_out, mi_info, mi_files, ulFrame>>
    /\ UNCHANGED notInfo

\* lines 147-162: every known control file that is there is moved to
\* out/var/lib/dpkg/info/$pkgname.$x
MiMoveScripts ==
    /\ mi_pc = "scripts"
    /\ LET moved == DOMAIN mi_tmp.control \cap KnownControlFiles IN
          /\ mi_out' = [x \in DOMAIN mi_out \cup {InfoPath(f) : f \in moved} |->
                           IF x \in DOMAIN mi_out THEN mi_out[x]
                           ELSE mi_tmp.control[x[2][2]]]
          /\ mi_tmp' = [mi_tmp EXCEPT
                           !.control = [f \in DOMAIN mi_tmp.control \ moved |->
                                           mi_tmp.control[f]]]
    /\ mi_pc' = "status"
    /\ UNCHANGED <<miWorld, mi_info, mi_files, ulFrame>>
    /\ UNCHANGED notInfo

\* line 163: the status record is written to $tmpdir/status
MiStatus ==
    /\ mi_pc = "status"
    /\ mi_tmp' = [mi_tmp EXCEPT !.status = Written(StatusRecord(mi_tmp.control["control"]))]
    /\ mi_pc' = "available"
    /\ UNCHANGED <<miWorld, mi_out, mi_info, mi_files, ulFrame>>
    /\ UNCHANGED notInfo

\* line 164: the available record is written to $tmpdir/available
MiAvailable ==
    /\ mi_pc = "available"
    /\ mi_tmp' = [mi_tmp EXCEPT
                     !.available = Written(AvailableRecord(mi_tmp.control["control"]))]
    /\ mi_pc' = "commit"
    /\ UNCHANGED <<miWorld, mi_out, mi_info, mi_files, ulFrame>>
    /\ UNCHANGED notInfo

\* lines 166-168: ostree commit -b "$ref_base/info" --tree=dir=$tmpdir/out,
\* which may fail (set -e)
MiCommit ==
    /\ mi_pc = "commit"
    /\ \/ /\ mi_info' = [committed |-> TRUE, tree |-> mi_out]
          /\ mi_pc' = "overwrite_status"
       \/ /\ mi_pc' = "failed"
          /\ UNCHANGED mi_info
    /\ UNCHANGED <<miWorld, mi_out, mi_tmp, mi_files, ulFrame>>
    /\ UNCHANGED notInfo

\* line 169: overwrite_if_changed $tmpdir/status $builddir/$ref_base/status
MiOverwriteStatus ==
    /\ mi_pc = "overwrite_status"
    /\ mi_files' = [mi_files EXCEPT
                       !["status"] = OverwriteIfChanged(mi_tmp.status.content, @)]
    /\ mi_tmp' = [mi_tmp EXCEPT
                     !.status = IF mi_files'["status"].touched THEN NoTarget ELSE @]
    /\ mi_pc' = "overwrite_available"
    /\ UNCHANGED <<miWorld, mi_out, mi_info, ulFrame>>
    /\ UNCHANGED notInfo

\* line 170: overwrite_if_changed $tmpdir/available $builddir/$ref_base/available
MiOverwriteAvailable ==
    /\ mi_pc = "overwrite_available"
    /\ mi_files' = [mi_files EXCEPT
                       !["available"] = OverwriteIfChanged(mi_tmp.available.content, @)]
    /\ mi_tmp' = [mi_tmp EXCEPT
                     !.available = IF mi_files'["available"].touched THEN NoTarget ELSE @]
    /\ mi_pc' = "cleanup"
    /\ UNCHANGED <<miWorld, mi_out, mi_info, ulFrame>>
    /\ UNCHANGED notInfo

\* line 171: rm -rf "$tmpdir"
MiCleanup ==
    /\ mi_pc = "cleanup"
    /\ mi_out' = EmptyTree
    /\ mi_tmp' = NoTmp
    /\ mi_pc' = "done"
    /\ UNCHANGED <<miWorld, mi_info, mi_files, ulFrame>>
    /\ UNCHANGED notInfo

miFrame == <<mi_task, mi_data, mi_control, mi_out, mi_tmp, mi_info, mi_files, mi_before>>

\* lines 23-29: aptly mirror drop || true; aptly mirror create, which may
\* fail (set -e)
UlCreate ==
    /\ mi_task = "update_lockfile" /\ mi_pc = "start"
    /\ mi_pc' \in {"aptly_update", "failed"}
    /\ UNCHANGED <<miFrame, ulFrame>>
    /\ UNCHANGED notInfo

\* line 30: aptly mirror update -list-without-downloading "$out" >$lockfile~:
\* the shell truncates $lockfile~, then aptly prints the listing or fails
UlList ==
    /\ mi_task = "update_lockfile" /\ mi_pc = "aptly_update"
    /\ \/ /\ ul_tilde' = Written(ul_listing)
          /\ mi_pc' = "aptly_drop"
       \/ /\ ul_tilde' = Written(<<>>)
          /\ mi_pc' = "failed"
    /\ UNCHANGED <<miFrame, ul_listing, ul_lockfile, ul_before>>
    /\ UNCHANGED notInfo

\* line 31: aptly mirror drop "$out", which may fail (set -e)
UlDrop ==
    /\ mi_task = "update_lockfile" /\ mi_pc = "aptly_drop"
    /\ mi_pc' \in {"compare", "failed"}
    /\ UNCHANGED <<miFrame, ulFrame>>
    /\ UNCHANGED notInfo

\* lines 32-36: if cmp $lockfile~ $lockfile; then rm $lockfile~;
\* else mv $lockfile~ $lockfile; fi
UlCompare ==
    /\ mi_task = "update_lockfile" /\ mi_pc = "compare"
    /\ IF ul_lockfile.exists /\ ul_lockfile.content = ul_tilde.content
       THEN UNCHANGED ul_lockfile
       ELSE ul_lockfile' = Written(ul_tilde.content)
    /\ ul_tilde' = NoTarget
    /\ mi_pc' = "done"
    /\ UNCHANGED <<miFrame, ul_listing, ul_before>>
    /\ UNCHANGED notInfo

InfoNext ==
    \/ MiStart
    \/ MiList
    \/ MiCheckout
    \/ MiMoveScripts
    \/ MiStatus
    \/ MiAvailable
    \/ MiCommit
    \/ MiOverwriteStatus
    \/ MiOverwriteAvailable
    \/ MiCleanup
    \/ UlCreate
    \/ UlList
    \/ UlDrop
    \/ UlCompare

(***************************************************************************)
(* The dpkg_configure script (apt.py 200-235), step by step.  A tree is a  *)
(* record of the files the script deals with, each its content or Absent.  *)
(***************************************************************************)
Absent == "absent"

\* lines 208-209: the lines piped to sponge
RootPasswd == "root:x:0:0:root:/root:/bin/bash\n"
RootGroup == "root:x:0:\n"

\* line 213: printf '#!/bin/sh\nexit 101'
PolicyStub == "#!/bin/sh\nexit 101"

ConfigureFiles == {"passwd", "group", "policy_rc_d", "machine_id"}

\* no checkout yet
NoRoot == [f \in ConfigureFiles |-> Absent]

\* lines 208-209: echo ... | sudo sponge $TARGET/etc/...: the file is
\* written whether it was there or not
Seed(old, line) == line

\* a tree with the files of `gone` left out
Without(tree, gone) == [f \in ConfigureFiles |-> IF f \in gone THEN Absent ELSE tree[f]]

ConfigureInit ==
    /\ cf_unpacked \in {t \in [ConfigureFiles -> {Absent, "from a package"}] :
                           t["policy_rc_d"] = Absent}
    /\ cf_root = [files |-> NoRoot, stub_executable |-> FALSE]
    /\ cf_pc = "start"
    /\ cf_hooks = [ran |-> FALSE, stub |-> Absent, executable |-> FALSE]
    /\ cf_failed = "none"
    /\ cf_configured = [committed |-> FALSE, tree |-> NoRoot]

\* the variables while no dpkg_configure script is modelled
ConfigureIdle ==
    /\ cf_unpacked = NoRoot
    /\ cf_root = [files |-> NoRoot, stub_executable |-> FALSE]
    /\ cf_pc = "idle"
    /\ cf_hooks = [ran |-> FALSE, stub |-> Absent, executable |-> FALSE]
    /\ cf_failed = "none"
    /\ cf_configured = [committed |-> FALSE, tree |-> NoRoot]

\* set -ex, line 202: a command that fails ends the script
CfFails(command) ==
    /\ cf_pc' = "failed"
    /\ cf_failed' = command

\* lines 203-205: sudo rm -rf "$tmpdir"; mkdir -p $tmpdir
CfStart ==
    /\ cf_pc = "start"
    /\ \/ cf_pc' = "checkout" /\ UNCHANGED cf_failed
       \/ CfFails("rm tmpdir")
    /\ UNCHANGED <<cf_unpacked, cf_root, cf_hooks, cf_configured>>
    /\ UNCHANGED notConfigure

\* line 207: sudo ostree checkout --force-copy $in_branch $TARGET
CfCheckout ==
    /\ cf_pc = "checkout"
    /\ \/ /\ cf_root' = [files |-> cf_unpacked, stub_executable |-> FALSE]
          /\ cf_pc' = "passwd" /\ UNCHANGED cf_failed
       \/ CfFails("checkout") /\ UNCHANGED cf_root
    /\ UNCHANGED <<cf_unpacked, cf_hooks, cf_configured>>
    /\ UNCHANGED notConfigure

\* line 208: echo "root:x:0:0:root:/root:/bin/bash" | sudo sponge $TARGET/etc/passwd
CfSeedPasswd ==
    /\ cf_pc = "passwd"
    /\ \/ /\ cf_root' = [cf_root EXCEPT !.files["passwd"] = Seed(@, RootPasswd)]
          /\ cf_pc' = "group" /\ UNCHANGED cf_failed
       \/ CfFails("sponge passwd") /\ UNCHANGED cf_root
    /\ UNCHANGED <<cf_unpacked, cf_hooks, cf_configured>>
    /\ UNCHANGED notConfigure

\* line 209: echo "root:x:0:" | sudo sponge $TARGET/etc/group
CfSeedGroup ==
    /\ cf_pc = "group"
    /\ \/ /\ cf_root' = [cf_root EXCEPT !.files["group"] = Seed(@, RootGroup)]
          /\ cf_pc' = "preinst" /\ UNCHANGED cf_failed
       \/ CfFails("sponge group") /\ UNCHANGED cf_root
    /\ UNCHANGED <<cf_unpacked, cf_hooks, cf_configured>>
    /\ UNCHANGED notConfigure

\* lines 210-211: $BWRAP /var/lib/dpkg/info/dash.preinst install
CfDashPreinst ==
    /\ cf_pc = "preinst"
    /\ \/ cf_pc' = "policy" /\ UNCHANGED cf_failed
       \/ CfFails("dash.preinst")
    /\ UNCHANGED <<cf_unpacked, cf_root, cf_hooks, cf_configured>>
    /\ UNCHANGED notConfigure

\* lines 213-214: printf '#!/bin/sh\nexit 101' | sudo sponge .../usr/sbin/policy-rc.d
CfPolicyStub ==
    /\ cf_pc = "policy"
    /\ \/ /\ cf_root' = [cf_root EXCEPT !.files["policy_rc_d"] = PolicyStub]
          /\ cf_pc' = "chmod" /\ UNCHANGED cf_failed
       \/ CfFails("sponge policy-rc.d") /\ UNCHANGED cf_root
    /\ UNCHANGED <<cf_unpacked, cf_hooks, cf_configured>>
    /\ UNCHANGED notConfigure

\* line 215: sudo chmod a+x .../usr/sbin/policy-rc.d
CfPolicyChmod ==
    /\ cf_pc = "chmod"
    /\ \/ /\ cf_root' = [cf_root EXCEPT !.stub_executable = TRUE]
          /\ cf_pc' = "divert" /\ UNCHANGED cf_failed
       \/ CfFails("chmod policy-rc.d") /\ UNCHANGED cf_root
    /\ UNCHANGED <<cf_unpacked, cf_hooks, cf_configured>>
    /\ UNCHANGED notConfigure

\* lines 217-220: dpkg-divert and the insserv and awk links
CfDivert ==
    /\ cf_pc = "divert"
    /\ \/ cf_pc' = "configure" /\ UNCHANGED cf_failed
       \/ CfFails("dpkg-divert")
    /\ UNCHANGED <<cf_unpacked, cf_root, cf_hooks, cf_configured>>
    /\ UNCHANGED notConfigure

\* line 222: $BWRAP dpkg --configure -a: the hooks run in the root as they
\* find it; one of them may write /etc/machine-id
CfConfigure ==
    /\ cf_pc = "configure"
    /\ cf_hooks' = [ran |-> TRUE, stub |-> cf_root.files["policy_rc_d"],
                    executable |-> cf_root.stub_executable]
    /\ \E id \in {cf_root.files["machine_id"], "written by a hook"} :
          cf_root' = [cf_root EXCEPT !.files["machine_id"] = id]
    /\ \/ cf_pc' = "machine_id" /\ UNCHANGED cf_failed
       \/ CfFails("dpkg --configure")
    /\ UNCHANGED <<cf_unpacked, cf_configured>>
    /\ UNCHANGED notConfigure

\* line 224: sudo rm -f $TARGET/etc/machine-id
CfRmMachineId ==
    /\ cf_pc = "machine_id"
    /\ \/ /\ cf_root' = [cf_root EXCEPT !.files["machine_id"] = Absent]
          /\ cf_pc' = "commit" /\ UNCHANGED cf_failed
       \/ CfFails("rm machine-id") /\ UNCHANGED cf_root
    /\ UNCHANGED <<cf_unpacked, cf_hooks, cf_configured>>
    /\ UNCHANGED notConfigure

\* lines 226-228: sudo tar -C $tmpdir/co -c . | ostree commit --branch
\* $out_branch --tree=tar=/dev/stdin.  The status of a pipeline is that of
\* its last command: when tar fails, having written the archive of a part of
\* the root, and ostree commits what it read, the script goes on
CfCommit ==
    /\ cf_pc = "commit"
    /\ \/ /\ cf_configured' = [committed |-> TRUE, tree |-> cf_root.files]
          /\ cf_pc' = "cleanup" /\ UNCHANGED cf_failed
       \/ /\ \E gone \in SUBSET ConfigureFiles :
                cf_configured' = [committed |-> TRUE, tree |-> Without(cf_root.files, gone)]
          /\ cf_pc' = "cleanup"
          /\ cf_failed' = "tar"
       \/ CfFails("ostree commit") /\ UNCHANGED cf_configured
    /\ UNCHANGED <<cf_unpacked, cf_root, cf_hooks>>
    /\ UNCHANGED notConfigure

\* line 229: sudo rm -rf $tmpdir
CfCleanup ==
    /\ cf_pc = "cleanup"
    /\ \/ /\ cf_root' = [files |-> NoRoot, stub_executable |-> FALSE]
          /\ cf_pc' = "done" /\ UNCHANGED cf_failed
       \/ /\ cf_pc' = "failed"
          /\ cf_failed' = IF cf_failed = "none" THEN "rm tmpdir" ELSE cf_failed
          /\ UNCHANGED cf_root
    /\ UNCHANGED <<cf_unpacked, cf_hooks, cf_configured>>
    /\ UNCHANGED notConfigure

ConfigureNext ==
    \/ CfStart
    \/ CfCheckout
    \/ CfSeedPasswd
    \/ CfSeedGroup
    \/ CfDashPreinst
    \/ CfPolicyStub
    \/ CfPolicyChmod
    \/ CfDivert
    \/ CfConfigure
    \/ CfRmMachineId
    \/ CfCommit
    \/ CfCleanup

(***************************************************************************)
(* A generator calling Apt.build_image (apt.py 268-275) for two lockfiles, *)
(* then Apt.write_phony_rules (apt.py 255-257).                            *)
(***************************************************************************)
\* the lockfile names a generator may use: in a directory or not, with '_',
\* and with the word "unpacked"
KeyLockfiles ==
    {<<"a", ".", "l">>, <<"b", ".", "l">>, <<"d", "/", "a", ".", "l">>,
     <<"d", "_", "a", ".", "l">>, <<"d", "/", "b">>, <<"d", "_", "b">>,
     <<"u", "n", "p", "a", "c", "k", "e", "d">>,
     <<"x", "/", "u", "n", "p", "a", "c", "k", "e", "d", ".", "l">>}

\* the text of every lockfile of this generator: one record
KeyLockfileText ==
    LockfileText(<<Rec(<<"a">>, <<"0", "a", "1", "b", "2", "c">>, <<"p", "/", "a", "+", "1">>)>>,
                 TRUE)

Str_update_apt_lockfiles ==
    <<"u", "p", "d", "a", "t", "e", "-", "a", "p", "t", "-", "l", "o", "c", "k", "f", "i", "l",
      "e", "s">>

KeyInit ==
    /\ bi_lockfiles \in KeyLockfiles \X KeyLockfiles
    /\ bi_registered = <<>>
    /\ bi_returned = <<>>
    /\ bi_phony = <<>>

\* the variables while no such generator is modelled
KeyIdle ==
    /\ bi_lockfiles = <<<<>>, <<>>>>
    /\ bi_registered = <<>>
    /\ bi_returned = <<>>
    /\ bi_phony = <<>>

\* Apt.build_image(lockfile), lines 268-275: the statements it registers
\* and the ref it returns, OstreeRef(c_ref[0])
BiBuildImage ==
    /\ Len(bi_registered) < 2
    /\ LET builds == BuildImage(bi_lockfiles[Len(bi_registered) + 1], KeyLockfileText)
           configure == builds[Len(builds) - 1]
       IN /\ bi_registered' = Append(bi_registered, builds)
          /\ bi_returned' = Append(bi_returned, configure.outputs[1])
    /\ UNCHANGED <<bi_lockfiles, bi_phony>>
    /\ UNCHANGED notKey

\* Apt.write_phony_rules(), lines 255-257: update-apt-lockfiles, over the
\* set of the update_lockfile outputs registered (line 296)
BiWritePhonyRules ==
    /\ Len(bi_registered) = 2
    /\ bi_phony = <<>>
    /\ bi_phony' =
          <<[name |-> Str_update_apt_lockfiles,
             inputs |-> {bi_registered[i][1].outputs[1] : i \in 1..2}]>>
    /\ UNCHANGED <<bi_lockfiles, bi_registered, bi_returned>>
    /\ UNCHANGED notKey

KeyNext ==
    \/ BiBuildImage
    \/ BiWritePhonyRules

(***************************************************************************)
(* Properties of download_deb.                                             *)
(***************************************************************************)
\* the while loop of lines 101-105 has been left
LoopOver == dl_pc \notin {"start", "loop", "cache", "filename", "aptly_pool_filename"}

\* the download() calls made on upstream mirrors
MirrorAttempts == SelectSeq(attempts, LAMBDA a : a.kind # "cache")

\* some download() call so far returned 0
SomeAttemptOk == \E k \in 1..Len(attempts) : attempts[k].ok

\* a local-cache download() call returned 0
CacheAttemptOk == \E k \in 1..Len(attempts) : attempts[k].kind = "cache" /\ attempts[k].ok

\* mirror m serves, at one of its two URLs, bytes with the record's digest
ServesMatch(m) == \E kind \in UrlKinds : Sha256Of(served[m][kind]) = sha256sum

\* i is the first mirror of the configured list that serves matching bytes
FirstMatching(i) ==
    /\ i \in 1..Len(deb_pool_mirrors)
    /\ ServesMatch(deb_pool_mirrors[i])
    /\ \A j \in 1..(i - 1) : ~ServesMatch(deb_pool_mirrors[j])

\* number of lines the loop has read from deb_pool_mirrors
LinesRead == Len(ReadLines(mirrors_file)) - Len(stdin)

\* C1: the data and control refs are committed only from an archive whose
\* SHA-256 equals the record's sha256, and when no download() call yielded
\* matching bytes the task ends failed, having committed nothing.
C1_CommitOnlyVerified ==
    /\ (refs.data # NoFile => Sha256Of(refs.data) = sha256sum)
    /\ (refs.control # NoFile => Sha256Of(refs.control) = sha256sum)
    /\ (dl_pc \in {"done", "failed"} /\ ~SomeAttemptOk
          => dl_pc = "failed" /\ refs.data = NoFile /\ refs.control = NoFile)

\* position of a source in the priority order the specification states
Rank(kind) == CASE kind = "cache" -> 1 [] kind = "filename" -> 2 [] OTHER -> 3

\* C2 as stated: the cache is attempted first and once, then every mirror in
\* list order, and last the pool path on the last mirror only; nothing is
\* attempted before every higher-priority source was attempted and failed.
C2_StrictPriority ==
    /\ \A k \in 1..Len(attempts) : \A i \in 1..(k - 1) :
          /\ ~attempts[i].ok
          /\ Rank(attempts[i].kind) <= Rank(attempts[k].kind)
    /\ Cardinality({k \in 1..Len(attempts) : attempts[k].kind = "cache"}) <= 1
    /\ \A k \in 1..Len(attempts) :
          attempts[k].kind = "aptly_pool_filename"
             => attempts[k].mirror = deb_pool_mirrors[Len(deb_pool_mirrors)]

\* the source the k-th download() call of a run goes to
KindOfCall(k) ==
    CASE (k - 1) % 3 = 0 -> "cache"
      [] (k - 1) % 3 = 1 -> "filename"
      [] OTHER -> "aptly_pool_filename"

\* C2 (amended): for each configured mirror in list order the script attempts
\* the local cache, then the record's filename on that mirror, then the pool
\* path on that mirror; a source is attempted only after every earlier source
\* of this order was attempted and failed, and with an empty list nothing is
\* attempted at all.
C2_PerMirrorOrder ==
    \A k \in 1..Len(attempts) :
       LET j == ((k - 1) \div 3) + 1 IN
          /\ j <= Len(deb_pool_mirrors)
          /\ attempts[k].kind = KindOfCall(k)
          /\ attempts[k].mirror =
                IF KindOfCall(k) = "cache" THEN NoMirror ELSE deb_pool_mirrors[j]
          /\ \A i \in 1..(k - 1) : ~attempts[i].ok

\* a run that went into a second loop iteration: the cache was attempted
\* again after the pool path of the first, not the last, mirror
C2_SecondIteration ==
    /\ Len(attempts) >= 5
    /\ attempts[3].kind = "aptly_pool_filename"
    /\ attempts[4].kind = "cache"
    /\ attempts[5].kind = "filename"
    /\ attempts[5].ok

\* what C3 concludes for the first matching mirror i
ConsultedUpTo(i) ==
    /\ LinesRead = i
    /\ \A j \in 1..(i - 1) : \A kind \in UrlKinds :
          \E k \in 1..Len(attempts) :
             attempts[k] = [kind |-> kind, mirror |-> deb_pool_mirrors[j], ok |-> FALSE]
    /\ Len(MirrorAttempts) \in {2 * (i - 1) + 1, 2 * (i - 1) + 2}
    /\ LET last == attempts[Len(attempts)] IN
          /\ last.ok
          /\ last.mirror = deb_pool_mirrors[i]
          /\ Sha256Of(served[last.mirror][last.kind]) = sha256sum
    /\ (dl_pc = "check" => DownloadOk(tmp_deb))
    /\ (dl_pc \in {"commit_data", "commit_control", "mkdir", "mv", "cleanup", "done"}
          => DownloadOk(extracted))
    /\ (dl_pc \in {"mkdir", "mv", "cleanup", "done", "failed"}
          => DownloadOk(refs.data) /\ DownloadOk(refs.control))

\* C3 as stated: if mirror i is the first mirror serving matching bytes, every
\* mirror before i was attempted and rejected, the fetch commits mirror i's
\* bytes and no mirror after i is attempted.
C3_FirstMatchingMirror ==
    \A i \in 1..Len(deb_pool_mirrors) :
       FirstMatching(i) /\ LoopOver => ConsultedUpTo(i)

\* C3 (amended): the same, for runs in which no local-cache attempt left
\* matching bytes in $tmpdir/deb; when one did, no mirror is attempted.
C3_MirrorsInListOrder ==
    /\ \A i \in 1..Len(deb_pool_mirrors) :
          FirstMatching(i) /\ LoopOver /\ ~CacheAttemptOk => ConsultedUpTo(i)
    /\ (CacheAttemptOk => MirrorAttempts = <<>>)

\* a finished run that fell through the first mirror to the second
C3_FellThrough ==
    /\ Len(deb_pool_mirrors) = 2
    /\ FirstMatching(2)
    /\ ~CacheAttemptOk
    /\ dl_pc = "done"
    /\ DownloadOk(refs.data)

\* C9: in mirroring mode, once a verified package is committed the task does
\* not fail (a failing mkdir or mv is not fatal) and a finished task has left
\* the verified bytes in the local cache.
C9_MirrorBestEffort ==
    apt_should_mirror /\ DownloadOk(refs.data) /\ DownloadOk(refs.control)
       => /\ dl_pc # "failed"
          /\ (dl_pc = "done" => DownloadOk(mirror_cache))

(***************************************************************************)
(* Properties of parse_packages, stated against the lockfile format: the   *)
(* paragraphs of the text and the value each field has in that format.     *)
(***************************************************************************)
RECURSIVE SplitParagraphs(_, _)
\* the non-empty paragraphs of a text, a last one without a blank line included
SplitParagraphs(lines, cur) ==
    IF lines = <<>> THEN (IF cur = <<>> THEN <<>> ELSE <<cur>>)
    ELSE IF Strip(Head(lines)) = <<>>
         THEN (IF cur = <<>> THEN <<>> ELSE <<cur>>) \o SplitParagraphs(Tail(lines), <<>>)
         ELSE SplitParagraphs(Tail(lines), Append(cur, Head(lines)))

Paragraphs(lines) == SplitParagraphs(lines, <<>>)

\* a line without its line terminator
Chomp(line) ==
    IF line # <<>> /\ line[Len(line)] = "\n" THEN SubSeq(line, 1, Len(line) - 1) ELSE line

\* what a continuation line adds to a value after the newline: nothing for
\* the blank-line marker " .", else the line without its leading space
ContinuationText(line) ==
    IF Chomp(line) = <<" ", ".">> THEN <<>> ELSE Tail(Chomp(line))

RECURSIVE FormatRecord(_, _, _)
\* the field values of a well-formed paragraph in the lockfile format
FormatRecord(lines, rec, lab) ==
    IF lines = <<>> THEN rec
    ELSE LET line == Head(lines) IN
         IF StartsWithSpace(line)
         THEN FormatRecord(Tail(lines),
                  DictSet(rec, lab, rec[lab] \o <<"\n">> \o ContinuationText(line)), lab)
         ELSE LET at == FindColonSpace(line)
                  l == SubSeq(line, 1, at - 1)
              IN FormatRecord(Tail(lines),
                     DictSet(rec, l, Strip(SubSeq(line, at + 2, Len(line)))), l)

\* the labels of the fields of a paragraph
LabelsOf(par) ==
    {SubSeq(par[i], 1, FindColonSpace(par[i]) - 1) :
        i \in {j \in 1..Len(par) : ~StartsWithSpace(par[j])}}

\* C4: every yielded field value is the first-line value followed by each
\* continuation line after a newline, a " ." continuation contributing an
\* embedded blank line and not a literal ".".
C4_FieldValuesRoundTrip ==
    \A k \in 1..Len(yielded) :
       yielded[k] = FormatRecord(Paragraphs(lockfile)[k], EmptyPkg, None)

\* C5: when the stream is exhausted, exactly one record per non-empty
\* paragraph has been yielded, in file order, the last paragraph included
\* whether or not a blank line follows it, and no record is empty.
C5_OneRecordPerParagraph ==
    parse_pc = "done" =>
       /\ Len(yielded) = Len(Paragraphs(lockfile))
       /\ \A k \in 1..Len(yielded) :
             /\ yielded[k] # EmptyPkg
             /\ DOMAIN yielded[k] = LabelsOf(Paragraphs(lockfile)[k])

(***************************************************************************)
(* Properties of image_from_lockfile and of the statements it registers.   *)
(***************************************************************************)
\* the rules of the registered statements, in order
RulesOf(builds) == [k \in 1..Len(builds) |-> builds[k].rule]

\* the statements of a rule
BuildsOf(rule) == {k \in 1..Len(ninja_builds) : ninja_builds[k].rule = rule}

\* C6: with a missing lockfile image_from_lockfile does not raise: it
\* registers no download_deb and no make_dpkg_info statement, registers the
\* image's combine statements over an empty package set, and returns the
\* unpacked image ref.
C6_MissingLockfileIsEmpty ==
    lockfile_errno = "ENOENT" /\ img_result.state # "pending" =>
       /\ img_result.state = "returned"
       /\ BuildsOf("download_deb") = {} /\ BuildsOf("make_dpkg_info") = {}
       /\ RulesOf(ninja_builds) =
             <<"dpkg_base", "ostree_combine", "ostree_combine", "deb_combine_meta",
               "deb_combine_meta", "ostree_combine", "phony">>
       /\ \A k \in 2..5 : ninja_builds[k].inputs = <<>>
       /\ Len(ninja_builds[6].inputs) = 5
       /\ \A k \in 1..5 : \E i \in 1..5 : ninja_builds[6].inputs[i] = ninja_builds[k].outputs[1]
       /\ img_result.ref = ninja_builds[6].outputs[1]
       /\ img_result.ref =
             Ref(Str_deb_images \o ReplaceChar(lockfile_path, "/", "_") \o Str_unpacked)

\* image_from_lockfile has returned for a lockfile that does not exist
C6_MissingLockfileReturned ==
    lockfile_errno = "ENOENT" /\ img_result.state = "returned"

\* f is the base name of path: what follows its last "/"
IsBasenameOf(f, path) ==
    /\ Len(f) <= Len(path)
    /\ f = SubSeq(path, Len(path) - Len(f) + 1, Len(path))
    /\ \A i \in 1..Len(f) : f[i] # "/"
    /\ (Len(f) < Len(path) => path[Len(path) - Len(f)] = "/")

\* pool is D[0:2]/D[2:4]/D[4:]_f
IsPoolPath(pool, D, f) ==
    LET a == Min(2, Len(D))
        b == Min(4, Len(D))
    IN /\ Len(pool) = Len(D) + 3 + Len(f)
       /\ \A i \in 1..a : pool[i] = D[i]
       /\ pool[a + 1] = "/"
       /\ \A i \in (a + 1)..b : pool[i + 1] = D[i]
       /\ pool[b + 2] = "/"
       /\ \A i \in (b + 1)..Len(D) : pool[i + 2] = D[i]
       /\ pool[Len(D) + 3] = "_"
       /\ \A i \in 1..Len(f) : pool[Len(D) + 3 + i] = f[i]

\* ref_base is "deb/pool/" followed by pool with '+' and '~' turned into '_'
IsNamespaceOf(ref_base, pool) ==
    /\ Len(ref_base) = Len(Str_deb_pool) + Len(pool)
    /\ SubSeq(ref_base, 1, Len(Str_deb_pool)) = Str_deb_pool
    /\ \A i \in 1..Len(pool) :
          ref_base[Len(Str_deb_pool) + i] = IF pool[i] \in {"+", "~"} THEN "_" ELSE pool[i]

ConstituentRefs ==
    {ninja_builds[k].outputs[1][2] :
        k \in BuildsOf("dpkg_base") \cup BuildsOf("download_deb")
              \cup BuildsOf("deb_combine_meta")}
    \cup {ninja_builds[k].outputs[3][2] : k \in BuildsOf("make_dpkg_info")}

\* two input trees of statement k hold the same path
InputsConflict(k) ==
    LET ins == ninja_builds[k].inputs IN
       \E i, j \in 1..Len(ins) :
          i # j /\ DOMAIN store[ins[i][2]] \cap DOMAIN store[ins[j][2]] # {}

\* statement k is a combine that ran on inputs that were all there
CombineRan(k) ==
    /\ k \in BuildsOf("ostree_combine")
    /\ k < next_build
    /\ \A i \in 1..Len(ninja_builds[k].inputs) :
          ninja_builds[k].inputs[i][2] \in DOMAIN store

RunningOf(rule) == {k \in Running : sched_builds[k].rule = rule}

\* C10: at no moment do two dpkg_configure statements run on the same image
\* root, nor two download_deb statements (which write the local mirror
\* cache): of each rule at most one statement is running.
C10_SideEffectsSerialized ==
    /\ \A j, k \in RunningOf("dpkg_configure") :
          sched_builds[j].params.out_branch = sched_builds[k].params.out_branch => j = k
    /\ Cardinality(RunningOf("dpkg_configure")) <= 1
    /\ Cardinality(RunningOf("download_deb")) <= 1

\* a download_deb statement is running and another, whose inputs are made,
\* is held back by the pool alone: ninja has a free job slot
C10_HeldBack ==
    /\ \E j \in RunningOf("download_deb") :
          \E k \in 1..Len(sched_builds) :
             /\ sched_builds[k].rule = "download_deb"
             /\ sched_status[k] = "waiting"
             /\ InputsDone(k)
    /\ Cardinality(Running) < MaxJobs

(***************************************************************************)
(* Properties of two runs in one workspace.                                *)
(***************************************************************************)
\* the records of the lockfile of a run
RecordsOf(r) == parse_packages(rr_lockfiles[r]).records

\* the statements a run registered for the i-th record of its lockfile
PerPackage(r, i) == <<rr_builds[r][2 * i], rr_builds[r][2 * i + 1]>>

\* both runs have registered their statements
BothGenerated == rr_builds[1] # <<>> /\ rr_builds[2] # <<>>

\* C11: the download_deb and make_dpkg_info statements registered for a
\* record are the same (parameters, inputs, outputs) in any two runs whose
\* lockfiles hold the record, whatever the other records and the mirror
\* lists are, and the second run executes none of them again.
C11_PerPackageFrame ==
    BothGenerated =>
       \A i \in 1..Len(RecordsOf(1)) : \A j \in 1..Len(RecordsOf(2)) :
          RecordsOf(1)[i] = RecordsOf(2)[j] =>
             /\ PerPackage(1, i) = PerPackage(2, j)
             /\ PerPackage(2, j)[1].rule = "download_deb"
             /\ PerPackage(2, j)[2].rule = "make_dpkg_info"
             /\ PerPackage(2, j)[1] \notin rr_executed[2]
             /\ PerPackage(2, j)[2] \notin rr_executed[2]

\* the second run is over: its mirror list differs and its lockfile has one
\* record more than the first, whose record it keeps; it ran the download of
\* the new record and not that of the kept one, which the first run had run
C11_SharedPackageKept ==
    /\ rr_pc = "done"
    /\ rr_mirrors[1] # rr_mirrors[2]
    /\ Len(RecordsOf(1)) = 1 /\ Len(RecordsOf(2)) = 2
    /\ \E j \in 1..2 :
          /\ RecordsOf(2)[j] = RecordsOf(1)[1]
          /\ PerPackage(2, j)[1] \in rr_executed[1] \ rr_executed[2]
          /\ PerPackage(2, 3 - j)[1] \in rr_executed[2] \ rr_executed[1]

\* the records of a lockfile, as a set
RecordSet(r) == {RecordsOf(r)[i] : i \in 1..Len(RecordsOf(r))}

\* C14: two runs whose lockfiles hold the same set of records, in any
\* order, and which both commit an unpacked image, register the same
\* statements and leave an unpacked image of the same content (the bytes of
\* a package are the same in both runs).
C14_SameRecordsSameImage ==
    /\ rr_pc = "done"
    /\ RecordSet(1) = RecordSet(2)
    /\ rr_images[1].ok /\ rr_images[2].ok
    => /\ rr_builds[1] = rr_builds[2]
       /\ rr_images[1] = rr_images[2]

(***************************************************************************)
(* Properties of the make_dpkg_info and update_lockfile scripts.           *)
(***************************************************************************)
\* the record this run of make_dpkg_info generates for a target file
GeneratedFor(f) ==
    IF f = "status" THEN StatusRecord(mi_control["control"])
    ELSE AvailableRecord(mi_control["control"])

\* the target was there with the content this run generates
SameAsBefore(f) == mi_before[f].exists /\ mi_before[f].content = GeneratedFor(f)
LockfileAsBefore == ul_before.exists /\ ul_before.content = ul_listing

\* C12: a target whose content equals the newly generated content is left
\* as it was, never written; in every other case, the target not being there
\* included, the target holds the generated content once the task has
\* completed.  This holds of make_dpkg_info's status and available files and
\* of update_lockfile's lockfile.
C12_OverwriteIfChanged ==
    /\ mi_task = "make_dpkg_info" =>
          \A f \in {"status", "available"} :
             /\ SameAsBefore(f) => mi_files[f] = mi_before[f]
             /\ mi_pc = "done" /\ ~SameAsBefore(f) => mi_files[f] = Written(GeneratedFor(f))
    /\ mi_task = "update_lockfile" =>
          /\ LockfileAsBefore => ul_lockfile = ul_before
          /\ mi_pc = "done" /\ ~LockfileAsBefore => ul_lockfile = Written(ul_listing)

\* make_dpkg_info has completed: it found the status file with the content
\* it generated and left it alone, and it created the available file, which
\* was not there
C12_KeptOneWroteOther ==
    /\ mi_task = "make_dpkg_info" /\ mi_pc = "done"
    /\ SameAsBefore("status") /\ ~mi_files["status"].touched
    /\ ~mi_before["available"].exists
    /\ mi_files["available"] = Written(GeneratedFor("available"))

\* C13 as stated: the tree committed by make_dpkg_info holds the file
\* manifest, the control scripts present in the control archive, and the
\* status and available records.
C13_TreeHoldsAllThree ==
    mi_info.committed =>
       /\ InfoPath("list") \in DOMAIN mi_info.tree
       /\ \A f \in DOMAIN mi_control \cap KnownControlFiles :
             InfoPath(f) \in DOMAIN mi_info.tree
       /\ \E x \in DOMAIN mi_info.tree \ {InfoPath("list")} :
             mi_info.tree[x] = StatusRecord(mi_control["control"])
       /\ \E x \in DOMAIN mi_info.tree \ {InfoPath("list")} :
             mi_info.tree[x] = AvailableRecord(mi_control["control"])

\* C13, amended: the tree committed by make_dpkg_info holds the file
\* manifest (the paths of the payload, the root written "/.") and the known
\* control files present in the control archive, and nothing else; the
\* status and available records are the files $builddir/$ref_base/status and
\* $builddir/$ref_base/available, the status record being control/control
\* followed by the line "Status: install ok unpacked" and an empty line.
C13_TreeAndRecordFiles ==
    /\ mi_info.committed =>
          /\ DOMAIN mi_info.tree =
                {InfoPath("list")}
                   \cup {InfoPath(f) : f \in DOMAIN mi_control \cap KnownControlFiles}
          /\ mi_info.tree[InfoPath("list")] = DOMAIN mi_data \cup {<<"/", <<".">>>>}
          /\ \A f \in DOMAIN mi_control \cap KnownControlFiles :
                mi_info.tree[InfoPath(f)] = mi_control[f]
    /\ mi_task = "make_dpkg_info" /\ mi_pc = "done" =>
          LET status == mi_files["status"].content
              control == mi_control["control"]
          IN /\ mi_info.committed
             /\ Len(status) = Len(control) + 2
             /\ SubSeq(status, 1, Len(control)) = control
             /\ status[Len(control) + 1] = "Status: install ok unpacked\n"
             /\ status[Len(control) + 2] = "\n"
             /\ mi_files["available"].content = control \o <<"\n">>

\* make_dpkg_info has completed for a payload with a file and a control
\* archive with a postinst and a file that is not a known control file
C13_ScriptsAndManifest ==
    /\ mi_task = "make_dpkg_info" /\ mi_pc = "done"
    /\ mi_info.committed
    /\ mi_data # EmptyTree
    /\ {"postinst", "copyright"} \subseteq DOMAIN mi_control
    /\ InfoPath("postinst") \in DOMAIN mi_info.tree

(***************************************************************************)
(* Properties of the dpkg_configure script.                                *)
(***************************************************************************)
\* C15: when the unpacked image holds /etc/passwd or /etc/group, the
\* seeding step of dpkg_configure leaves its content as it is.
C15_SeedOnlyIfAbsent ==
    cf_pc = "preinst" =>
       /\ cf_unpacked["passwd"] # Absent => cf_root.files["passwd"] = cf_unpacked["passwd"]
       /\ cf_unpacked["group"] # Absent => cf_root.files["group"] = cf_unpacked["group"]

\* the hooks have run and the root is still there
HooksDone == cf_pc \in {"machine_id", "commit", "cleanup"}

\* C16: the policy stub is in place, executable, when the hooks of
\* dpkg --configure -a run, and stays in place after them; a committed tree
\* was committed after the hooks ran and holds no machine id; and when a
\* command of the script has failed nothing is committed to the configured
\* branch.
C16_OrderAndNoCommitOnFailure ==
    /\ cf_hooks.ran => cf_hooks.stub = PolicyStub /\ cf_hooks.executable
    /\ HooksDone => cf_root.files["policy_rc_d"] = PolicyStub /\ cf_root.stub_executable
    /\ cf_configured.committed =>
          cf_hooks.ran /\ cf_configured.tree["machine_id"] = Absent
    /\ cf_failed # "none" => ~cf_configured.committed

(***************************************************************************)
(* Properties of the statements Apt.build_image registers.                 *)
(***************************************************************************)
\* the output branches of the combine and meta statements of a call
ImageBranches(i) ==
    {bi_registered[i][k].outputs[1] :
        k \in {j \in 1..Len(bi_registered[i]) :
                  bi_registered[i][j].rule \in {"ostree_combine", "deb_combine_meta"}}}

\* C17: the combine and meta statements registered for two distinct
\* lockfile paths declare no output branch in common.
C17_DistinctImageKeys ==
    Len(bi_registered) = 2 /\ bi_lockfiles[1] # bi_lockfiles[2] =>
       ImageBranches(1) \cap ImageBranches(2) = {}

\* the dpkg_configure statement of a call
ConfigureOf(i) == bi_registered[i][Len(bi_registered[i]) - 1]

\* C18: the output branch build_image gives to dpkg_configure is the input
\* branch, deb/images/<key>/unpacked, with its last facet alone changed to
\* "configured": the same prefix deb/images/<key>, and another branch than
\* the input.
C18_OnlyFacetChanges ==
    \A i \in 1..Len(bi_registered) :
       LET in_branch == ConfigureOf(i).params.in_branch
           out_branch == ConfigureOf(i).params.out_branch
           prefix == SubSeq(in_branch, 1, Len(in_branch) - Len(Str_word_unpacked))
       IN /\ ConfigureOf(i).rule = "dpkg_configure"
          /\ in_branch = prefix \o Str_word_unpacked
          /\ out_branch = prefix \o Str_word_configured
          /\ out_branch # in_branch

\* the make_dpkg_info statements that have started
StartedInfo ==
    {k \in 1..Len(sched_builds) :
        sched_builds[k].rule = "make_dpkg_info" /\ sched_status[k] \in {"running", "done"}}

\* C19: whenever a make_dpkg_info statement has started, the data ref of
\* its package is committed, by the download_deb statement of the package,
\* which has finished.
C19_InfoAfterData ==
    \A k \in StartedInfo :
       /\ Ref(sched_builds[k].params.ref_base \o Str_data) \in sched_store
       /\ \E j \in 1..Len(sched_builds) :
             /\ sched_builds[j].rule = "download_deb"
             /\ sched_builds[j].params.ref_base = sched_builds[k].params.ref_base
             /\ sched_status[j] = "done"

\* a make_dpkg_info statement is running while that of another package
\* waits: the download_deb of that package failed after it committed the
\* data ref and before it committed the control ref
C19_InfoHeldBack ==
    /\ StartedInfo # {}
    /\ \E k \in 1..Len(sched_builds) : \E j \in 1..Len(sched_builds) :
          /\ sched_builds[k].rule = "make_dpkg_info" /\ sched_status[k] = "waiting"
          /\ sched_builds[j].rule = "download_deb" /\ sched_status[j] = "failed"
          /\ sched_builds[j].params.ref_base = sched_builds[k].params.ref_base
          /\ Ref(sched_builds[k].params.ref_base \o Str_data) \in sched_store
          /\ Ref(sched_builds[k].params.ref_base \o Str_control) \notin sched_store

(***************************************************************************)
(* Specifications.                                                         *)
(***************************************************************************)
DownloadInit == DlInit /\ ParseIdle /\ ImgIdle /\ SchedIdle /\ RerunIdle /\ InfoIdle /\ ConfigureIdle /\ KeyIdle
SpecDownload == DownloadInit /\ [][DlNext]_vars

ParserInit == ParseInit /\ DlIdle /\ ImgIdle /\ SchedIdle /\ RerunIdle /\ InfoIdle /\ ConfigureIdle /\ KeyIdle
SpecParse == ParserInit /\ [][ParseNext]_vars

\* the download_deb variables before any script runs: image_from_lockfile
\* only writes the mirrors file
DlBefore ==
    /\ mirrors_file = <<>>
    /\ sha256sum = "D1"
    /\ apt_should_mirror = FALSE
    /\ served = [m \in MirrorNames |-> [k \in UrlKinds |-> NoFile]]
    /\ mirror_cache = NoFile
    /\ tmp_deb = NoFile
    /\ stdin = <<>>
    /\ mirror = NoMirror
    /\ dl_pc = "idle"
    /\ attempts = <<>>
    /\ extracted = NoFile
    /\ refs = [data |-> NoFile, control |-> NoFile]

\* the parse_packages variables other than the text of the lockfile
ParseBefore ==
    /\ stream = <<>>
    /\ pkg = EmptyPkg
    /\ label = None
    /\ yielded = <<>>
    /\ parse_pc = "idle"

ImageInit == ImgInit /\ DlBefore /\ ParseBefore /\ SchedIdle /\ RerunIdle /\ InfoIdle /\ ConfigureIdle /\ KeyIdle
SpecImage == ImageInit /\ [][ImgNext]_vars

SchedulerInit == SchedInit /\ DlIdle /\ ParseIdle /\ ImgIdle /\ RerunIdle /\ InfoIdle /\ ConfigureIdle /\ KeyIdle
SpecSched == SchedulerInit /\ [][SchedNext]_vars

TwoRunsInit == RerunInit /\ DlIdle /\ ParseIdle /\ ImgIdle /\ SchedIdle /\ InfoIdle /\ ConfigureIdle /\ KeyIdle
SpecRerun == TwoRunsInit /\ [][RerunNext]_vars

ScriptInit == InfoInit /\ DlIdle /\ ParseIdle /\ ImgIdle /\ SchedIdle /\ RerunIdle /\ ConfigureIdle /\ KeyIdle
SpecInfo == ScriptInit /\ [][InfoNext]_vars

ConfigureScriptInit ==
    /\ ConfigureInit /\ DlIdle /\ ParseIdle /\ ImgIdle /\ SchedIdle /\ RerunIdle /\ InfoIdle
    /\ KeyIdle
SpecConfigure == ConfigureScriptInit /\ [][ConfigureNext]_vars

GeneratorInit ==
    /\ KeyInit /\ DlIdle /\ ParseIdle /\ ImgIdle /\ SchedIdle /\ RerunIdle /\ InfoIdle
    /\ ConfigureIdle
SpecKeys == GeneratorInit /\ [][KeyNext]_vars

====
